---- MODULE Spec2Model ----
(***************************************************************************)
(* Concurrency primitives of gokoncurent: Arc, ArcMutex, Barrier, CondVar, *)
(* OnceCell, RWArcMutex.                                                   *)
(* Each primitive has its own specification over its own variables; the    *)
(* variables of the other primitives stay at their initial values.         *)
(*                                                                         *)
(* Granularity.  An atomic.Int64 operation is one step.  A section of code  *)
(* that runs between mu.Lock() and mu.Unlock() (or cond.Wait(), which       *)
(* releases mu while parking) and touches only state guarded by mu is one   *)
(* step.  A goroutine parked in cond.Wait() leaves only when Signal or      *)
(* Broadcast picks it; it then re-acquires mu in a step of its own.         *)
(***************************************************************************)
EXTENDS Integers, FiniteSets, Sequences, TLC

(***************************************************************************)
(* Bounds of the model.                                                    *)
(***************************************************************************)
NumArcThreads == 2
MaxHandles == 3
MaxRepeatedDrops == 1
MaxCloneMany == 2

NumMutexThreads == 2
IncrementsPerThread == 2

NumBarrierThreads == 3
NumBarrierDroppers == 2
MaxGen == 2

NumCvWaiters == 2
NumCvCallers == 1
NumCvDroppers == 1
MaxCvRefs == 2

NumOcThreads == 2
MaxOcOps == 3
MaxOcFailures == 2
MaxOcAttempts == 3

NumRwThreads == 2
MaxRwOps == 4

NumAllocs == 2
HandlesPerAlloc == 2

ArcThreads == 1..NumArcThreads
BarrierThreads == 1..NumBarrierThreads
BarrierDroppers == 1..NumBarrierDroppers
Handles == 1..MaxHandles
MutexThreads == 1..NumMutexThreads
CvWaiters == 1..NumCvWaiters
CvCallers == 1..NumCvCallers
CvDroppers == 1..NumCvDroppers
OcThreads == 1..NumOcThreads
RwThreads == 1..NumRwThreads
Allocs == 1..NumAllocs
EqHandles == 1..(NumAllocs * HandlesPerAlloc)

VARIABLES
    \* ---- Arc (pkg/arc/arc.go) ----
    arcRefCount,   \* the shared *atomic.Int64 of one allocation
    hExists,       \* hExists[h]: handle h (an *Arc[T]) has been created
    hValid,        \* hValid[h]: the handle's data and refCount fields are non-nil
    hDropped,      \* history: hDropped[h]: Drop has been called on handle h
    repeatedDrops, \* history: number of Drop calls made on a handle that had
                   \* been dropped before
    apc,           \* apc[t]: "idle", "clone" (after Add(1)), "cloneMany" (after
                   \* Add(count)), "drop" (after Add(-1))
    aH,            \* aH[t]: the handle thread t is operating on (1 outside a call)
    aNew,          \* aNew[t]: the newCount returned by the thread's atomic Add
                   \* (0 outside a call)
    aCnt,          \* aCnt[t]: the count argument of the thread's CloneMany
                   \* (0 outside CloneMany)
    dropTrue,      \* history: number of Drop calls that returned true
    cloneStale,    \* history: some Clone was called on a handle after a Drop of it
    arcPanicked,   \* history: some Clone dereferenced a nil refCount field
    \* ---- ArcMutex (pkg/arcmutex/arcmutex.go, lines 1-250) ----
    amMu,          \* mutexData.mu: 0 when free, else the thread holding it
    amData,        \* mutexData.data, an int payload
    amRefCount,    \* the reference count of the inner Arc
    amValid,       \* amValid[t]: thread t's ArcMutex handle has a valid inner Arc
    mpc,           \* mpc[t]: "idle", "poll", "fn", "fnWrite", "unlock", "unwind"
                   \* (fn panicked, the deferred Unlock not yet run), "probe"
                   \* (IsLocked between its TryLock and its Unlock)
    mTmp,          \* mTmp[t]: the value fn loaded from *value
    mRet,          \* mRet[t]: what the running call returns when it ends
    mDone,         \* history: number of increments thread t's fn has completed
    amDropped,     \* history: amDropped[t]: Drop was called on t's handle
    mPanicked,     \* history: a call whose fn panicked has unwound
    mRefused,      \* history: the non-blocking calls ("TryWithLock",
                   \* "TryLockNoWait") that have returned false because another
                   \* goroutine held the mutex
    \* ---- Barrier (.errcheck_excludes.txt, lines 105-210) ----
    bCount,        \* Barrier.count
    bWaiting,      \* Barrier.waiting
    bGen,          \* Barrier.gen
    bBroken,       \* Barrier.broken
    bRefCount,     \* Barrier.refCount
    bpc,           \* bpc[t], a goroutine calling Wait: "idle", "parked" (in
                   \* cond.Wait), "woken" (picked by Broadcast, mu not yet
                   \* re-acquired)
    bMyGen,        \* bMyGen[t]: Wait's local myGen (0 outside a call)
    dpc,           \* dpc[d], a goroutine calling Drop: "idle", or "dropBreak"
                   \* (refCount taken to 0, critical section not yet entered)
    bEpoch,        \* history: number of completed rounds of bCount arrivals
    bArrived,      \* history: arrivals counted in the round under way
    bEp,           \* history: the round t's blocked Wait arrived in (0 outside)
    bTrueEarly,    \* history: some Wait returned true although its round had
                   \* not yet received bCount arrivals
    bFalseLive,    \* history: some Wait returned false although no Drop had
                   \* taken refCount to 0
    bDropped,      \* history: a Drop has taken refCount to 0
    bEverReset,    \* history: a Reset has changed the barrier
    bRelSnap,      \* history: the callers parked when refCount reached 0 that
                   \* have not returned yet
    bRelK,         \* history: how many callers were parked at that moment
    bRelTrue,      \* history: one of them has returned true
    bLateArrival,  \* history: a Wait entered the barrier after refCount reached 0
    \* ---- CondVar (pkg/arcmutex/arcmutex.go, lines 252-403) ----
    cvRefCount,    \* CondVar.refCount
    wpc,           \* wpc[w], a goroutine calling Wait: "idle", "parked" (in
                   \* cond.Wait), "woken" (made runnable, mu not yet re-acquired)
    wSpurious,     \* history: the wake-up of the woken caller w was the Signal of
                   \* a cancelled WaitWithContext (FALSE unless w is woken)
    cpc,           \* cpc[c], a goroutine calling WaitWithContext: "idle",
                   \* "select" (in the select), "retTrue" / "retFalse" (its
                   \* last call has returned that value)
    xpc,           \* xpc[c], the auxiliary goroutine of c's call: "none",
                   \* "spawned", "parked" (in cond.Wait), "woken"
    cDone,         \* cDone[c]: the call's channel done holds a value
    cCtx,          \* cCtx[c]: the context of the pending call is done
    cWokenFirst,   \* history: a Signal, Broadcast or releasing Drop woke the
                   \* auxiliary goroutine of c's last call while its context was
                   \* not yet done
    cvdpc,         \* cvdpc[d], a goroutine calling Drop: "idle", or "broadcast"
                   \* (refCount taken to 0, critical section not yet entered)
    cvRelSnap,     \* history: the Wait callers parked when refCount reached 0
                   \* that have not returned yet
    cvRelK,        \* history: how many Wait callers were parked at that moment
    \* ---- OnceCell (the LazyCell of the specification, section 4.6) ----
    ocValue,       \* the cell: 0 when Empty, else the stored value
    ocIniter,      \* the caller of GetOrInit that runs the initializer now
                   \* (0 when none does)
    ocInitCalls,   \* history: invocations of the initializer given to GetOrInit
    ocRetryCalls,  \* history: invocations of the initializer given to
                   \* GetOrInitWithRetry
    ocFailed,      \* history: how many of those invocations failed
    ocpc,          \* ocpc[t]: "idle", "init" (won GetOrInit's race, initializer
                   \* not yet run), "blocked" (lost it, waits for the value),
                   \* "retry" (in the retry loop), "store" (its initializer
                   \* succeeded, value not yet stored)
    ocOps,         \* ocOps[t]: operations thread t has started
    ocAttempt,     \* ocAttempt[t]: initializer invocations of t's retry call
    ocMax,         \* ocMax[t]: max_attempts of t's last retry call
    ocLastErr,     \* ocLastErr[t]: the error of the last failed attempt of t's
                   \* retry call (0: none)
    ocRet,         \* ocRet[t]: the value t's last retry call returned (0: the
                   \* zero value)
    ocErr,         \* ocErr[t]: the error t's last retry call returned (0: nil)
    ocRetried,     \* history: ocRetried[t]: t has completed a retry call
    ocInitStartFull, \* history: a GetOrInit that found the cell Initialized
                   \* went on to the initializer
    ocGoiSeen,     \* history: the values GetOrInit calls have returned
    ocGetSeen,     \* history: the values Get calls have returned from an
                   \* Initialized cell
    ocSetTrue,     \* history: number of Set calls that returned true
    ocSetWinner,   \* history: the value of the Set that returned true (0: none)
    ocSetWrong,    \* history: a Set on an Initialized cell returned true, or
                   \* a Set on an Empty cell returned false
    ocSetFalse,    \* history: a Set returned false
    ocStoredBy,    \* history: the operation that stored the value: "none",
                   \* "set", "init", "retry", "failed" (a retry call whose
                   \* every attempt failed)
    ocBudget,      \* history: the sum of max_attempts over the retry calls
                   \* that entered the loop
    \* ---- RWArcMutex (pkg/rwarcmutex/rwarcmutex.go) ----
    rwRefcnt,      \* m.refcnt
    rwClosed,      \* m.closed
    rwValueNil,    \* m.value is nil
    rwData,        \* *m.value, an int payload
    rwWriter,      \* m.mu: the writer that holds or awaits the lock (0: none)
    rwReaders,     \* m.mu: the readers that hold the lock
    rwpc,          \* rwpc[t]: "idle"; "cloneAdd"; "dropClose", "dropNil";
                   \* "rlock", "rfn"; "wlock", "wwait", "wfn", "wstore"
    rwTmp,         \* rwTmp[t]: the *v the writer's fn loaded (0 outside fn)
    rwOps,         \* calls started so far
    rwIncs,        \* history: increments completed by the writers' fn
    rwReleased,    \* history: a Drop that took refcnt to 0 has completed
    rwLate,        \* history: rwLate[t]: t's last call started after that
    rwPanicked,    \* a fn dereferenced the nil m.value
    \* ---- Arc.Equal over several allocations (pkg/arc/arc.go) ----
    eqData,        \* eqData[h]: the allocation handle h's data field points
                   \* to, 0 when the field is nil
    eqCount,       \* eqCount[a]: the reference count of allocation a
    eqDropped,     \* history: eqDropped[h]: Drop has been called on handle h
    eqLast         \* the last Equal call: <<h1, h2, result>>

arcVars == <<arcRefCount, hExists, hValid, hDropped, repeatedDrops, apc, aH,
             aNew, aCnt, dropTrue, cloneStale, arcPanicked>>

amVars == <<amMu, amData, amRefCount, amValid, mpc, mTmp, mRet, mDone, amDropped,
            mPanicked, mRefused>>

bFields == <<bCount, bWaiting, bGen, bBroken>>
bWaiters == <<bpc, bMyGen>>
bDroppers == <<dpc>>
bRounds == <<bEpoch, bArrived, bEp, bTrueEarly, bFalseLive>>
bRelease == <<bDropped, bEverReset, bRelSnap, bRelK, bRelTrue, bLateArrival>>

barVars == <<bFields, bRefCount, bWaiters, bDroppers, bRounds, bRelease>>

cvWaitVars == <<wpc, wSpurious>>
cvCallVars == <<cpc, xpc, cDone, cCtx, cWokenFirst>>

cvVars == <<cvRefCount, cvWaitVars, cvCallVars, cvdpc, cvRelSnap, cvRelK>>

ocCell == <<ocValue, ocIniter, ocInitCalls, ocRetryCalls, ocFailed>>
ocCallers == <<ocpc, ocOps, ocAttempt, ocMax, ocLastErr, ocRet, ocErr, ocRetried>>
ocHistory == <<ocInitStartFull, ocGoiSeen, ocGetSeen, ocSetTrue, ocSetWinner,
               ocSetWrong, ocSetFalse, ocStoredBy, ocBudget>>

ocVars == <<ocCell, ocCallers, ocHistory>>

rwVars == <<rwRefcnt, rwClosed, rwValueNil, rwData, rwWriter, rwReaders, rwpc,
            rwTmp, rwOps, rwIncs, rwReleased, rwLate, rwPanicked>>

eqVars == <<eqData, eqCount, eqDropped, eqLast>>

vars == <<arcVars, amVars, barVars, cvVars, ocVars, rwVars, eqVars>>

\* What an action of one primitive leaves alone: the other primitives.
notArc == <<amVars, barVars, cvVars, ocVars, rwVars, eqVars>>
notMutex == <<arcVars, barVars, cvVars, ocVars, rwVars, eqVars>>
notBarrier == <<arcVars, amVars, cvVars, ocVars, rwVars, eqVars>>
notCondVar == <<arcVars, amVars, barVars, ocVars, rwVars, eqVars>>
notOnceCell == <<arcVars, amVars, barVars, cvVars, rwVars, eqVars>>
notRw == <<arcVars, amVars, barVars, cvVars, ocVars, eqVars>>
notEq == <<arcVars, amVars, barVars, cvVars, ocVars, rwVars>>

(***************************************************************************)
(* Arc                                                                     *)
(***************************************************************************)
ExistingHandles == {h \in Handles : hExists[h]}

\* The Clone calls under way that are about to create a handle.
PendingClones == {t \in ArcThreads : apc[t] = "clone" /\ aNew[t] > 1}

\* The handles that the CloneMany calls under way are about to create.
RECURSIVE PendingManyUpTo(_)
PendingManyUpTo(n) ==
    IF n = 0 THEN 0
    ELSE (IF aNew[n] > aCnt[n] THEN aCnt[n] ELSE 0) + PendingManyUpTo(n - 1)

\* The handles in use or about to be created.
HandlesTaken ==
    Cardinality(ExistingHandles) + Cardinality(PendingClones)
        + PendingManyUpTo(NumArcThreads)

\* The goroutines are interchangeable: a call is started by the idle goroutine
\* of the lowest number.
StartsCall(t) ==
    /\ apc[t] = "idle"
    /\ \A u \in ArcThreads : u < t => apc[u] # "idle"

\* NewArc: one handle, reference count 1.
ArcInit ==
    /\ arcRefCount = 1
    /\ hExists = [h \in Handles |-> h = 1]
    /\ hValid = [h \in Handles |-> h = 1]
    /\ hDropped = [h \in Handles |-> FALSE]
    /\ repeatedDrops = 0
    /\ apc = [t \in ArcThreads |-> "idle"]
    /\ aH = [t \in ArcThreads |-> 1]
    /\ aNew = [t \in ArcThreads |-> 0]
    /\ aCnt = [t \in ArcThreads |-> 0]
    /\ dropTrue = 0
    /\ cloneStale = FALSE
    /\ arcPanicked = FALSE

\* a.refCount.Add(1) of Clone with the increment left out.
RefAfterClone_NoAdd(rc) == rc

\* a.refCount.Add(1) in Clone.
RefAfterClone(rc) == rc + 1

\* a.refCount.Add(-1) in Drop, and the undo in Clone.
RefAfterDrop(rc) == rc - 1

\* Clone's "newCount <= 1": the count was not positive before the increment.
CloneFailed(newCount) == newCount <= 1

\* Drop's "newCount == 0": this call released the data.
DropIsLast(newCount) == newCount = 0

\* Clone, first half: the nil check of a, then a.refCount.Add(1).
CloneAdd(t, h) ==
    /\ StartsCall(t)
    /\ hExists[h]
    /\ hValid[h]
    /\ CloneFailed(RefAfterClone(arcRefCount)) \/ HandlesTaken < MaxHandles
    /\ arcRefCount' = RefAfterClone(arcRefCount)
    /\ aNew' = [aNew EXCEPT ![t] = RefAfterClone(arcRefCount)]
    /\ aH' = [aH EXCEPT ![t] = h]
    /\ apc' = [apc EXCEPT ![t] = "clone"]
    /\ cloneStale' = (cloneStale \/ hDropped[h])
    /\ UNCHANGED <<hExists, hValid, hDropped, repeatedDrops, aCnt, dropTrue,
                   arcPanicked>>
    /\ UNCHANGED notArc

\* Clone on a handle whose fields a releasing Drop set to nil: a is not nil, so
\* the nil check passes and a.refCount.Add(1) dereferences nil.
ClonePanic(t, h) ==
    /\ StartsCall(t)
    /\ hExists[h]
    /\ ~hValid[h]
    /\ arcPanicked' = TRUE
    /\ cloneStale' = TRUE
    /\ UNCHANGED <<arcRefCount, hExists, hValid, hDropped, repeatedDrops, apc, aH,
                   aNew, aCnt, dropTrue>>
    /\ UNCHANGED notArc

\* Clone, second half: undo and return nil, or build the new handle from the
\* fields of a as they are now.
CloneFinish(t) ==
    /\ apc[t] = "clone"
    /\ apc' = [apc EXCEPT ![t] = "idle"]
    /\ IF CloneFailed(aNew[t])
       THEN /\ arcRefCount' = RefAfterDrop(arcRefCount)
            /\ UNCHANGED <<hExists, hValid>>
       ELSE LET n == CHOOSE h \in Handles :
                        ~hExists[h] /\ \A g \in Handles : g < h => hExists[g]
            IN  /\ hExists' = [hExists EXCEPT ![n] = TRUE]
                /\ hValid' = [hValid EXCEPT ![n] = hValid[aH[t]]]
                /\ UNCHANGED arcRefCount
    /\ aH' = [aH EXCEPT ![t] = 1]
    /\ aNew' = [aNew EXCEPT ![t] = 0]
    /\ UNCHANGED <<hDropped, repeatedDrops, aCnt, dropTrue, cloneStale,
                   arcPanicked>>
    /\ UNCHANGED notArc

\* CloneMany adding 1 whatever the number of clones asked for.
RefAfterCloneMany_One(rc, count) == rc + 1

\* a.refCount.Add(int64(count)) in CloneMany.
RefAfterCloneMany(rc, count) == rc + count

\* The nil *Arc.
NilHandle == 0

\* CloneMany's "a == nil || count <= 0": the call returns nil.
CloneManyRefused(h, count) == h = NilHandle \/ count <= 0

\* CloneMany's "newCount <= int64(count)": the count was not positive before
\* the increment.
CloneManyFailed(newCount, count) == newCount <= count

\* CloneMany, first half: return nil on a nil handle or a count <= 0, else
\* a.refCount.Add(int64(count)).  On a handle whose fields are nil the Add
\* dereferences nil, as in Clone.
CloneManyAdd(t, h, count) ==
    /\ StartsCall(t)
    /\ IF CloneManyRefused(h, count)
       THEN UNCHANGED arcVars
       ELSE /\ hExists[h]
            /\ hValid[h]
            /\ \/ CloneManyFailed(RefAfterCloneMany(arcRefCount, count), count)
               \/ HandlesTaken + count <= MaxHandles
            /\ arcRefCount' = RefAfterCloneMany(arcRefCount, count)
            /\ aNew' = [aNew EXCEPT ![t] = RefAfterCloneMany(arcRefCount, count)]
            /\ aCnt' = [aCnt EXCEPT ![t] = count]
            /\ aH' = [aH EXCEPT ![t] = h]
            /\ apc' = [apc EXCEPT ![t] = "cloneMany"]
            /\ cloneStale' = (cloneStale \/ hDropped[h])
            /\ UNCHANGED <<hExists, hValid, hDropped, repeatedDrops, dropTrue,
                           arcPanicked>>
    /\ UNCHANGED notArc

\* The first n handles not yet in use.
RECURSIVE FreeHandles(_, _)
FreeHandles(n, from) ==
    IF n = 0 \/ from > MaxHandles THEN {}
    ELSE IF hExists[from] THEN FreeHandles(n, from + 1)
    ELSE {from} \cup FreeHandles(n - 1, from + 1)

\* CloneMany, second half: undo and return nil, or build count handles from
\* the fields of a as they are now.
CloneManyFinish(t) ==
    /\ apc[t] = "cloneMany"
    /\ apc' = [apc EXCEPT ![t] = "idle"]
    /\ IF CloneManyFailed(aNew[t], aCnt[t])
       THEN /\ arcRefCount' = arcRefCount - aCnt[t]
            /\ UNCHANGED <<hExists, hValid>>
       ELSE LET new == FreeHandles(aCnt[t], 1)
            IN  /\ hExists' = [h \in Handles |-> hExists[h] \/ h \in new]
                /\ hValid' = [h \in Handles |->
                                IF h \in new THEN hValid[aH[t]] ELSE hValid[h]]
                /\ UNCHANGED arcRefCount
    /\ aH' = [aH EXCEPT ![t] = 1]
    /\ aNew' = [aNew EXCEPT ![t] = 0]
    /\ aCnt' = [aCnt EXCEPT ![t] = 0]
    /\ UNCHANGED <<hDropped, repeatedDrops, dropTrue, cloneStale, arcPanicked>>
    /\ UNCHANGED notArc

\* Drop, first half: the nil checks (return false), then a.refCount.Add(-1).
DropAdd(t, h) ==
    /\ StartsCall(t)
    /\ hExists[h]
    /\ hDropped[h] => repeatedDrops < MaxRepeatedDrops
    /\ hDropped' = [hDropped EXCEPT ![h] = TRUE]
    /\ repeatedDrops' = IF hDropped[h] THEN repeatedDrops + 1 ELSE repeatedDrops
    /\ IF hValid[h]
       THEN /\ arcRefCount' = RefAfterDrop(arcRefCount)
            /\ aNew' = [aNew EXCEPT ![t] = RefAfterDrop(arcRefCount)]
            /\ aH' = [aH EXCEPT ![t] = h]
            /\ apc' = [apc EXCEPT ![t] = "drop"]
       ELSE UNCHANGED <<arcRefCount, aNew, aH, apc>>
    /\ UNCHANGED <<hExists, hValid, aCnt, dropTrue, cloneStale, arcPanicked>>
    /\ UNCHANGED notArc

\* Drop, second half: on newCount == 0 clear the handle's fields and return true.
DropFinish(t) ==
    /\ apc[t] = "drop"
    /\ apc' = [apc EXCEPT ![t] = "idle"]
    /\ IF DropIsLast(aNew[t])
       THEN /\ hValid' = [hValid EXCEPT ![aH[t]] = FALSE]
            /\ dropTrue' = dropTrue + 1
       ELSE UNCHANGED <<hValid, dropTrue>>
    /\ aH' = [aH EXCEPT ![t] = 1]
    /\ aNew' = [aNew EXCEPT ![t] = 0]
    /\ UNCHANGED <<arcRefCount, hExists, hDropped, repeatedDrops, aCnt,
                   cloneStale, arcPanicked>>
    /\ UNCHANGED notArc

(***************************************************************************)
(* Arc.Equal.  NumAllocs allocations made by NewArc, each with               *)
(* HandlesPerAlloc handles (the original and its clones); the handles are   *)
(* dropped and compared with Equal.                                          *)
(***************************************************************************)
\* The allocation handle h was created for.
AllocOf(h) == IF h = NilHandle THEN 0 ELSE ((h - 1) \div HandlesPerAlloc) + 1

\* NewArc for every allocation, then Clone until it has HandlesPerAlloc handles.
EqInit ==
    /\ eqData = [h \in EqHandles |-> AllocOf(h)]
    /\ eqCount = [a \in Allocs |-> HandlesPerAlloc]
    /\ eqDropped = [h \in EqHandles |-> FALSE]
    /\ eqLast = <<NilHandle, NilHandle, TRUE>>

\* Equal: "if a == nil || other == nil { return a == other }", then
\* "return a.data == other.data".
ArcEqual(h1, h2) ==
    IF h1 = NilHandle \/ h2 = NilHandle
    THEN h1 = h2
    ELSE eqData[h1] = eqData[h2]

\* Drop, called once on handle h: return false on nil fields, else
\* refCount.Add(-1) and, on newCount == 0, data = nil.
EqDrop(h) ==
    /\ ~eqDropped[h]
    /\ eqDropped' = [eqDropped EXCEPT ![h] = TRUE]
    /\ IF eqData[h] = 0
       THEN UNCHANGED <<eqData, eqCount>>
       ELSE /\ eqCount' = [eqCount EXCEPT ![AllocOf(h)] = RefAfterDrop(@)]
            /\ eqData' = [eqData EXCEPT ![h] =
                    IF DropIsLast(RefAfterDrop(eqCount[AllocOf(h)])) THEN 0 ELSE @]
    /\ UNCHANGED eqLast
    /\ UNCHANGED notEq

\* h1.Equal(h2) on any two handles, nil included.
EqEqual(h1, h2) ==
    /\ eqLast' = <<h1, h2, ArcEqual(h1, h2)>>
    /\ UNCHANGED <<eqData, eqCount, eqDropped>>
    /\ UNCHANGED notEq

(***************************************************************************)
(* ArcMutex.  Every thread holds a clone of its own; fn is the increment   *)
(* "*value++" of the tests: a load, then a store of the loaded value + 1.  *)
(***************************************************************************)
\* NewArcMutex(0) followed by one Clone per further thread.
AmInit ==
    /\ amMu = 0
    /\ amData = 0
    /\ amRefCount = NumMutexThreads
    /\ amValid = [t \in MutexThreads |-> TRUE]
    /\ mpc = [t \in MutexThreads |-> "idle"]
    /\ mTmp = [t \in MutexThreads |-> 0]
    /\ mRet = [t \in MutexThreads |-> TRUE]
    /\ mDone = [t \in MutexThreads |-> 0]
    /\ amDropped = [t \in MutexThreads |-> FALSE]
    /\ mPanicked = FALSE
    /\ mRefused = {}

\* A lock attempt that does not look at the state of the mutex.
MutexFree_Ignored(m) == TRUE

\* sync.Mutex: Lock() proceeds, and TryLock() succeeds, only when it is free.
MutexFree(m) == m = 0

\* am.inner.Get(): nil when the handle's data field is nil.
InnerData(t) == amValid[t]

\* WithLock / WithLockResult: return if the handle is invalid, else mu.Lock()
\* (blocks while the mutex is held), defer Unlock, fn(&data).
WithLock(t) ==
    /\ mpc[t] = "idle"
    /\ mDone[t] < IncrementsPerThread
    /\ IF InnerData(t)
       THEN /\ MutexFree(amMu)
            /\ amMu' = t
            /\ mpc' = [mpc EXCEPT ![t] = "fn"]
            /\ mRet' = [mRet EXCEPT ![t] = TRUE]
       ELSE UNCHANGED <<amMu, mpc, mRet>>
    /\ UNCHANGED <<amData, amRefCount, amValid, mTmp, mDone, amDropped, mPanicked>>
    /\ UNCHANGED notMutex

\* TryWithLock: one mu.TryLock(); false when the handle is invalid or the
\* mutex is held, else defer Unlock, fn(&data), true.
TryWithLock(t) ==
    /\ mpc[t] = "idle"
    /\ mDone[t] < IncrementsPerThread
    /\ IF InnerData(t) /\ MutexFree(amMu)
       THEN /\ amMu' = t
            /\ mpc' = [mpc EXCEPT ![t] = "fn"]
            /\ mRet' = [mRet EXCEPT ![t] = TRUE]
       ELSE /\ mRet' = [mRet EXCEPT ![t] = FALSE]
            /\ UNCHANGED <<amMu, mpc>>
    /\ UNCHANGED <<amData, amRefCount, amValid, mTmp, mDone, amDropped, mPanicked>>
    /\ UNCHANGED notMutex

\* TryLock's "timeout <= 0" taken as "timeout < 0".
NoWait_Strict(timeout) == timeout < 0

\* TryLock's "timeout <= 0": a single attempt, no polling.
NoWait(timeout) == timeout <= 0

\* TryLock(timeout, fn), lines 204-219: false when the handle is invalid; with
\* timeout <= 0 one mu.TryLock(), on success defer Unlock, fn(&data), true,
\* else false; with a positive timeout enter the polling loop.
TryLock(t, timeout) ==
    /\ mpc[t] = "idle"
    /\ mDone[t] < IncrementsPerThread
    /\ IF ~InnerData(t)
       THEN /\ mRet' = [mRet EXCEPT ![t] = FALSE]
            /\ UNCHANGED <<amMu, mpc>>
       ELSE IF NoWait(timeout)
            THEN IF MutexFree(amMu)
                 THEN /\ amMu' = t
                      /\ mpc' = [mpc EXCEPT ![t] = "fn"]
                      /\ mRet' = [mRet EXCEPT ![t] = TRUE]
                 ELSE /\ mRet' = [mRet EXCEPT ![t] = FALSE]
                      /\ UNCHANGED <<amMu, mpc>>
            ELSE /\ mpc' = [mpc EXCEPT ![t] = "poll"]
                 /\ mRet' = [mRet EXCEPT ![t] = FALSE]
                 /\ UNCHANGED amMu
    /\ UNCHANGED <<amData, amRefCount, amValid, mTmp, mDone, amDropped, mPanicked>>
    /\ UNCHANGED notMutex

\* One round of TryLock's loop: mu.TryLock(); on failure return false once the
\* deadline has passed (expired), else sleep a millisecond and go round again.
TryLockPoll(t, expired) ==
    /\ mpc[t] = "poll"
    /\ IF MutexFree(amMu)
       THEN /\ amMu' = t
            /\ mpc' = [mpc EXCEPT ![t] = "fn"]
            /\ mRet' = [mRet EXCEPT ![t] = TRUE]
       ELSE /\ mpc' = [mpc EXCEPT ![t] = IF expired THEN "idle" ELSE "poll"]
            /\ UNCHANGED <<amMu, mRet>>
    /\ UNCHANGED <<amData, amRefCount, amValid, mTmp, mDone, amDropped, mPanicked>>
    /\ UNCHANGED mRefused
    /\ UNCHANGED notMutex

\* fn, first half: load *value.
FnLoad(t) ==
    /\ mpc[t] = "fn"
    /\ mTmp' = [mTmp EXCEPT ![t] = amData]
    /\ mpc' = [mpc EXCEPT ![t] = "fnWrite"]
    /\ UNCHANGED <<amMu, amData, amRefCount, amValid, mRet, mDone, amDropped,
                   mPanicked>>
    /\ UNCHANGED mRefused
    /\ UNCHANGED notMutex

\* fn, second half: store the loaded value plus one.
FnStore(t) ==
    /\ mpc[t] = "fnWrite"
    /\ amData' = mTmp[t] + 1
    /\ mDone' = [mDone EXCEPT ![t] = @ + 1]
    /\ mpc' = [mpc EXCEPT ![t] = "unlock"]
    /\ UNCHANGED <<amMu, amRefCount, amValid, mTmp, mRet, amDropped, mPanicked>>
    /\ UNCHANGED mRefused
    /\ UNCHANGED notMutex

\* fn panics, before or after its load: the call unwinds, running its
\* deferred functions.
FnPanic(t) ==
    /\ mpc[t] \in {"fn", "fnWrite"}
    /\ mpc' = [mpc EXCEPT ![t] = "unwind"]
    /\ mTmp' = [mTmp EXCEPT ![t] = 0]
    /\ UNCHANGED <<amMu, amData, amRefCount, amValid, mRet, mDone, amDropped,
                   mPanicked>>
    /\ UNCHANGED mRefused
    /\ UNCHANGED notMutex

\* The mutex after the call's exit if Unlock were called after fn instead of
\* deferred: a panic in fn would skip it.
MutexAfterExit_NoDefer(m, panicking) == IF panicking THEN m ELSE 0

\* The mutex after the call's exit: "defer innerData.mu.Unlock()" runs when fn
\* returns and when fn panics.
MutexAfterExit(m, panicking) == 0

\* The deferred innerData.mu.Unlock(), then the return, or the panic going
\* on to the caller (which recovers it).
Unlock(t) ==
    /\ mpc[t] \in {"unlock", "unwind"}
    /\ amMu' = MutexAfterExit(amMu, mpc[t] = "unwind")
    /\ mPanicked' = (mPanicked \/ mpc[t] = "unwind")
    /\ mpc' = [mpc EXCEPT ![t] = "idle"]
    /\ UNCHANGED <<amData, amRefCount, amValid, mTmp, mRet, mDone, amDropped>>
    /\ UNCHANGED mRefused
    /\ UNCHANGED notMutex

\* IsLocked, up to its mu.TryLock(): false on an invalid handle, true when
\* the TryLock fails; when it succeeds the probe holds the mutex until its
\* Unlock.
IsLocked(t) ==
    /\ mpc[t] = "idle"
    /\ IF InnerData(t) /\ MutexFree(amMu)
       THEN /\ amMu' = t
            /\ mpc' = [mpc EXCEPT ![t] = "probe"]
       ELSE UNCHANGED <<amMu, mpc>>
    /\ UNCHANGED <<amData, amRefCount, amValid, mTmp, mRet, mDone, amDropped,
                   mPanicked, mRefused>>
    /\ UNCHANGED notMutex

\* IsLocked after a successful TryLock: innerData.mu.Unlock(); return false.
IsLockedUnlock(t) ==
    /\ mpc[t] = "probe"
    /\ amMu' = 0
    /\ mpc' = [mpc EXCEPT ![t] = "idle"]
    /\ UNCHANGED <<amData, amRefCount, amValid, mTmp, mRet, mDone, amDropped,
                   mPanicked, mRefused>>
    /\ UNCHANGED notMutex

\* ArcMutex.Drop: am.inner.Drop() on the thread's own handle.  Only a
\* releasing Drop clears the handle's fields.
AmDrop(t) ==
    /\ mpc[t] = "idle"
    /\ ~amDropped[t]
    /\ amValid[t]
    /\ amRefCount > 0
    /\ amRefCount' = RefAfterDrop(amRefCount)
    /\ amValid' = [amValid EXCEPT ![t] = ~DropIsLast(RefAfterDrop(amRefCount))]
    /\ amDropped' = [amDropped EXCEPT ![t] = TRUE]
    /\ UNCHANGED <<amMu, amData, mpc, mTmp, mRet, mDone, mPanicked>>
    /\ UNCHANGED mRefused
    /\ UNCHANGED notMutex

(***************************************************************************)
(* Barrier.  Goroutines of BarrierThreads call Wait, goroutines of          *)
(* BarrierDroppers call Drop; Clone and Reset are one step each and may be  *)
(* taken by any goroutine.                                                  *)
(***************************************************************************)
\* NewBarrier(n) for some n > 0 (n <= 0 panics and yields no barrier).
BarrierInit ==
    /\ bCount \in 1..NumBarrierThreads
    /\ bWaiting = 0
    /\ bGen = 0
    /\ bBroken = FALSE
    /\ bRefCount = 1
    /\ bpc = [t \in BarrierThreads |-> "idle"]
    /\ bMyGen = [t \in BarrierThreads |-> 0]
    /\ dpc = [d \in BarrierDroppers |-> "idle"]
    /\ bEpoch = 0
    /\ bArrived = 0
    /\ bEp = [t \in BarrierThreads |-> 0]
    /\ bTrueEarly = FALSE
    /\ bFalseLive = FALSE
    /\ bDropped = FALSE
    /\ bEverReset = FALSE
    /\ bRelSnap = {}
    /\ bRelK = 0
    /\ bRelTrue = FALSE
    /\ bLateArrival = FALSE

BarrierParked == {t \in BarrierThreads : bpc[t] = "parked"}

BarrierInWait == {t \in BarrierThreads : bpc[t] \in {"parked", "woken"}}

\* No Drop has taken the barrier's refCount to 0 and no Reset has succeeded.
NotDroppedOrReset == ~bDropped /\ ~bEverReset

\* The goroutines are interchangeable: a Wait is started by the idle goroutine
\* of the lowest number, and likewise a Drop.
StartsWait(t) ==
    /\ bpc[t] = "idle"
    /\ \A u \in BarrierThreads : u < t => bpc[u] # "idle"

StartsDrop(d) ==
    /\ dpc[d] = "idle"
    /\ \A e \in BarrierDroppers : e < d => dpc[e] # "idle"

\* The last arrival declared one arrival early.
IsLastArrival_Early(waiting, count) == waiting >= count - 1

\* Wait's "b.waiting == b.count", evaluated after b.waiting++.
IsLastArrival(waiting, count) == waiting = count

\* The generation left as it is by the last arrival.
NextGen_Same(g) == g

\* Wait's "b.gen++".
NextGen(g) == g + 1

\* A Broadcast that wakes nobody.
Broadcast_None(pc) == pc

\* b.cond.Broadcast(): every goroutine parked in cond.Wait is made runnable.
Broadcast(pc) == [t \in DOMAIN pc |-> IF pc[t] = "parked" THEN "woken" ELSE pc[t]]

\* The loop condition with the generation read again after the wake-up
\* instead of captured before blocking.
KeepWaiting_Reread(broken, myGen, gen) == ~broken /\ gen = gen

\* Wait's loop condition "!b.broken && myGen == b.gen".
KeepWaiting(broken, myGen, gen) == ~broken /\ myGen = gen

\* Wait without its test of b.broken at entry.
WaitRefused_Never(broken) == FALSE

\* Wait's "if b.broken { return false }" at entry.
WaitRefused(broken) == broken

\* Wait's "return !b.broken" after the loop.
WaitResult(broken) == ~broken

\* Reset without its "b.waiting != 0" test.
ResetPanics_Never(waiting) == FALSE

\* Reset's "b.waiting != 0": the call panics.
ResetPanics(waiting) == waiting # 0

\* Clone: b.refCount.Add(1).
BarrierClone ==
    /\ bRefCount < NumBarrierDroppers
    /\ bRefCount' = bRefCount + 1
    /\ UNCHANGED <<bFields, bWaiters, bDroppers, bRounds, bRelease>>
    /\ UNCHANGED notBarrier

\* Drop without its "current <= 0" test.
AlreadyDropped_Never(current) == FALSE

\* Drop's "current <= 0": the call returns without touching the count.
AlreadyDropped(current) == current <= 0

\* Drop, the Load / CompareAndSwap loop.  A CompareAndSwap(current, current-1)
\* succeeds only while refCount still equals the value loaded, so the round
\* that ends the loop acts as one step on refCount: nothing when it loads a
\* count <= 0, a decrement otherwise.  Rounds whose CompareAndSwap fails change
\* nothing.  On current-1 == 0 the call goes on to its critical section.
BarrierDrop(d) ==
    /\ StartsDrop(d)
    /\ IF AlreadyDropped(bRefCount)
       THEN UNCHANGED <<bRefCount, dpc, bDropped, bRelSnap, bRelK>>
       ELSE /\ bRefCount' = bRefCount - 1
            /\ IF bRefCount - 1 = 0
               THEN /\ dpc' = [dpc EXCEPT ![d] = "dropBreak"]
                    /\ bDropped' = TRUE
                    /\ bRelSnap' = BarrierParked
                    /\ bRelK' = Cardinality(BarrierParked)
               ELSE UNCHANGED <<dpc, bDropped, bRelSnap, bRelK>>
    /\ UNCHANGED <<bFields, bWaiters, bRounds, bEverReset, bRelTrue, bLateArrival>>
    /\ UNCHANGED notBarrier

\* Drop, the releasing call: mu.Lock(); broken = true; cond.Broadcast();
\* mu.Unlock().
BarrierDropBreak(d) ==
    /\ dpc[d] = "dropBreak"
    /\ dpc' = [dpc EXCEPT ![d] = "idle"]
    /\ bBroken' = TRUE
    /\ bpc' = Broadcast(bpc)
    /\ UNCHANGED <<bCount, bWaiting, bGen, bRefCount, bMyGen, bRounds, bRelease>>
    /\ UNCHANGED notBarrier

\* Wait, from mu.Lock() to the return of the last arrival or to the first
\* cond.Wait().  A broken barrier returns false at once.
BarrierWait(t) ==
    /\ StartsWait(t)
    /\ bGen < MaxGen
    /\ IF WaitRefused(bBroken)
       THEN /\ bFalseLive' = (bFalseLive \/ ~bDropped)
            /\ UNCHANGED <<bWaiting, bGen, bpc, bMyGen, bEpoch, bArrived, bEp,
                           bTrueEarly, bLateArrival>>
       ELSE /\ bLateArrival' = (bLateArrival \/ bDropped)
            /\ UNCHANGED bFalseLive
            /\ IF bCount >= 1 /\ bArrived + 1 >= bCount
               THEN bEpoch' = bEpoch + 1 /\ bArrived' = 0
               ELSE bEpoch' = bEpoch /\ bArrived' = bArrived + 1
            /\ IF IsLastArrival(bWaiting + 1, bCount)
               THEN /\ bGen' = NextGen(bGen)
                    /\ bWaiting' = 0
                    /\ bpc' = Broadcast(bpc)
                    /\ bTrueEarly' = (bTrueEarly \/ bArrived + 1 < bCount)
                    /\ UNCHANGED <<bMyGen, bEp>>
               ELSE /\ bWaiting' = bWaiting + 1
                    /\ bpc' = [bpc EXCEPT ![t] = "parked"]
                    /\ bMyGen' = [bMyGen EXCEPT ![t] = bGen]
                    /\ bEp' = [bEp EXCEPT ![t] = bEpoch]
                    /\ UNCHANGED <<bGen, bTrueEarly>>
    /\ UNCHANGED <<bCount, bBroken, bRefCount, bDroppers, bDropped, bEverReset,
                   bRelSnap, bRelK, bRelTrue>>
    /\ UNCHANGED notBarrier

\* Wait, after cond.Wait() returned with mu held again: park again while the
\* loop condition holds, else return !b.broken.
BarrierWaitResume(t) ==
    /\ bpc[t] = "woken"
    /\ IF KeepWaiting(bBroken, bMyGen[t], bGen)
       THEN /\ bpc' = [bpc EXCEPT ![t] = "parked"]
            /\ UNCHANGED <<bMyGen, bEp, bTrueEarly, bFalseLive, bRelSnap, bRelTrue>>
       ELSE /\ bpc' = [bpc EXCEPT ![t] = "idle"]
            /\ bMyGen' = [bMyGen EXCEPT ![t] = 0]
            /\ bEp' = [bEp EXCEPT ![t] = 0]
            /\ bTrueEarly' = (bTrueEarly \/ (WaitResult(bBroken) /\ bEp[t] >= bEpoch))
            /\ bFalseLive' = (bFalseLive \/ (~WaitResult(bBroken) /\ ~bDropped))
            /\ bRelSnap' = bRelSnap \ {t}
            /\ bRelTrue' = (bRelTrue \/ (t \in bRelSnap /\ WaitResult(bBroken)))
    /\ UNCHANGED <<bFields, bRefCount, bDroppers, bEpoch, bArrived, bDropped,
                   bEverReset, bRelK, bLateArrival>>
    /\ UNCHANGED notBarrier

\* Reset(n): under mu, panic if b.waiting != 0 (the deferred Unlock runs and
\* nothing has changed), else count = n and broken = false.  Unlike NewBarrier,
\* Reset does not test n.
BarrierReset(n) ==
    /\ IF ResetPanics(bWaiting)
       THEN UNCHANGED <<bCount, bBroken, bEverReset, bArrived>>
       ELSE /\ bCount' = n
            /\ bBroken' = FALSE
            /\ bEverReset' = TRUE
            /\ bArrived' = 0
    /\ UNCHANGED <<bWaiting, bGen, bRefCount, bWaiters, bDroppers, bEpoch, bEp,
                   bTrueEarly, bFalseLive, bDropped, bRelSnap, bRelK, bRelTrue,
                   bLateArrival>>
    /\ UNCHANGED notBarrier

BarrierNext ==
    \/ BarrierClone
    \/ \E d \in BarrierDroppers : BarrierDrop(d)
    \/ \E d \in BarrierDroppers : BarrierDropBreak(d)
    \/ \E t \in BarrierThreads : BarrierWait(t)
    \/ \E t \in BarrierThreads : BarrierWaitResume(t)
    \/ \E n \in 0..NumBarrierThreads : BarrierReset(n)

(***************************************************************************)
(* CondVar.  Goroutines of CvWaiters call Wait, goroutines of CvCallers     *)
(* call WaitWithContext / WaitWithTimeout (each call starts an auxiliary    *)
(* goroutine), goroutines of CvDroppers call Drop; Clone, Signal,           *)
(* Broadcast and the cancellation of a context are one step each.  Which    *)
(* parked goroutine a cond.Signal() picks is left open, as sync.Cond        *)
(* documents it.                                                            *)
(***************************************************************************)
\* NewCondVar: refCount 1, nobody waiting.
CvInit ==
    /\ cvRefCount = 1
    /\ wpc = [w \in CvWaiters |-> "idle"]
    /\ wSpurious = [w \in CvWaiters |-> FALSE]
    /\ cpc = [c \in CvCallers |-> "idle"]
    /\ xpc = [c \in CvCallers |-> "none"]
    /\ cDone = [c \in CvCallers |-> FALSE]
    /\ cCtx = [c \in CvCallers |-> FALSE]
    /\ cWokenFirst = [c \in CvCallers |-> FALSE]
    /\ cvdpc = [d \in CvDroppers |-> "idle"]
    /\ cvRelSnap = {}
    /\ cvRelK = 0

\* The goroutines blocked inside cond.Wait(): callers of Wait, and auxiliary
\* goroutines of WaitWithContext.
CvParkedWaiters == {w \in CvWaiters : wpc[w] = "parked"}

CvParkedAux == {c \in CvCallers : xpc[c] = "parked"}

\* The goroutines are interchangeable: a call is started by the goroutine of
\* the lowest number that can start one.
CvStartsWait(w) ==
    /\ wpc[w] = "idle"
    /\ \A u \in CvWaiters : u < w => wpc[u] # "idle"

CvCanCall(c) == cpc[c] # "select" /\ xpc[c] = "none"

CvStartsCall(c) ==
    /\ CvCanCall(c)
    /\ \A u \in CvCallers : u < c => ~CvCanCall(u)

CvStartsDrop(d) ==
    /\ cvdpc[d] = "idle"
    /\ \A e \in CvDroppers : e < d => cvdpc[e] # "idle"

\* cond.Signal() under mu: one parked goroutine, if there is any, is made
\* runnable.  byUser tells a Signal call from WaitWithContext's own Signal on
\* cancellation.
CondSignal(byUser) ==
    \/ /\ CvParkedWaiters = {}
       /\ CvParkedAux = {}
       /\ UNCHANGED <<wpc, wSpurious, xpc, cWokenFirst>>
    \/ \E w \in CvParkedWaiters :
          /\ wpc' = [wpc EXCEPT ![w] = "woken"]
          /\ wSpurious' = [wSpurious EXCEPT ![w] = ~byUser]
          /\ UNCHANGED <<xpc, cWokenFirst>>
    \/ \E c \in CvParkedAux :
          /\ xpc' = [xpc EXCEPT ![c] = "woken"]
          /\ cWokenFirst' = [cWokenFirst EXCEPT ![c] = byUser /\ ~cCtx[c]]
          /\ UNCHANGED <<wpc, wSpurious>>

\* A cond.Broadcast() that wakes nobody.
WakeAll_None(pc) == pc

\* cond.Broadcast() on the goroutines of one kind: every parked one is made
\* runnable.
WakeAll(pc) == [g \in DOMAIN pc |-> IF pc[g] = "parked" THEN "woken" ELSE pc[g]]

\* cond.Broadcast() under mu.
CondBroadcast ==
    /\ wpc' = WakeAll(wpc)
    /\ xpc' = WakeAll(xpc)
    /\ cWokenFirst' = [c \in CvCallers |->
                          IF xpc[c] = "parked" THEN ~cCtx[c] ELSE cWokenFirst[c]]
    /\ UNCHANGED wSpurious

\* Clone: cv.refCount.Add(1).
CvClone ==
    /\ cvRefCount < MaxCvRefs
    /\ cvRefCount' = cvRefCount + 1
    /\ UNCHANGED <<cvWaitVars, cvCallVars, cvdpc, cvRelSnap, cvRelK>>
    /\ UNCHANGED notCondVar

\* Drop's "current-1 == 0": this call performs the release.
CvReleases(current) == current - 1 = 0

\* Drop, the Load / CompareAndSwap loop: as for Barrier, the round that ends
\* the loop is one step on refCount.  On current-1 == 0 the call goes on to
\* its critical section.
CvDrop(d) ==
    /\ CvStartsDrop(d)
    /\ IF AlreadyDropped(cvRefCount)
       THEN UNCHANGED <<cvRefCount, cvdpc, cvRelSnap, cvRelK>>
       ELSE /\ cvRefCount' = cvRefCount - 1
            /\ IF CvReleases(cvRefCount)
               THEN /\ cvdpc' = [cvdpc EXCEPT ![d] = "broadcast"]
                    /\ cvRelSnap' = CvParkedWaiters
                    /\ cvRelK' = Cardinality(CvParkedWaiters)
               ELSE UNCHANGED <<cvdpc, cvRelSnap, cvRelK>>
    /\ UNCHANGED <<cvWaitVars, cvCallVars>>
    /\ UNCHANGED notCondVar

\* Drop, the releasing call: mu.Lock(); cond.Broadcast(); mu.Unlock().
CvDropBroadcast(d) ==
    /\ cvdpc[d] = "broadcast"
    /\ cvdpc' = [cvdpc EXCEPT ![d] = "idle"]
    /\ CondBroadcast
    /\ UNCHANGED <<cvRefCount, cpc, cDone, cCtx, cvRelSnap, cvRelK>>
    /\ UNCHANGED notCondVar

\* Wait: mu.Lock(), then cond.Wait() parks the caller and releases mu.
CvWait(w) ==
    /\ CvStartsWait(w)
    /\ wpc' = [wpc EXCEPT ![w] = "parked"]
    /\ UNCHANGED <<cvRefCount, wSpurious, cvCallVars, cvdpc, cvRelSnap, cvRelK>>
    /\ UNCHANGED notCondVar

\* Wait, after the wake-up: cond.Wait() re-acquires mu, the deferred Unlock
\* runs and the call returns.
CvWaitResume(w) ==
    /\ wpc[w] = "woken"
    /\ wpc' = [wpc EXCEPT ![w] = "idle"]
    /\ wSpurious' = [wSpurious EXCEPT ![w] = FALSE]
    /\ cvRelSnap' = cvRelSnap \ {w}
    /\ UNCHANGED <<cvRefCount, cvCallVars, cvdpc, cvRelK>>
    /\ UNCHANGED notCondVar

\* Signal: mu.Lock(); cond.Signal(); mu.Unlock().
CvSignal ==
    /\ CondSignal(TRUE)
    /\ UNCHANGED <<cvRefCount, cpc, cDone, cCtx, cvdpc, cvRelSnap, cvRelK>>
    /\ UNCHANGED notCondVar

\* Broadcast: mu.Lock(); cond.Broadcast(); mu.Unlock().
CvBroadcast ==
    /\ CondBroadcast
    /\ UNCHANGED <<cvRefCount, cpc, cDone, cCtx, cvdpc, cvRelSnap, cvRelK>>
    /\ UNCHANGED notCondVar

\* WaitWithContext / WaitWithTimeout, up to the select: make the buffered
\* channel done, start the auxiliary goroutine.
CvWaitWithContext(c) ==
    /\ CvStartsCall(c)
    /\ cpc' = [cpc EXCEPT ![c] = "select"]
    /\ xpc' = [xpc EXCEPT ![c] = "spawned"]
    /\ cDone' = [cDone EXCEPT ![c] = FALSE]
    /\ cCtx' = [cCtx EXCEPT ![c] = FALSE]
    /\ cWokenFirst' = [cWokenFirst EXCEPT ![c] = FALSE]
    /\ UNCHANGED <<cvRefCount, cvWaitVars, cvdpc, cvRelSnap, cvRelK>>
    /\ UNCHANGED notCondVar

\* The auxiliary goroutine: mu.Lock(), then cond.Wait() parks it.
CvAuxPark(c) ==
    /\ xpc[c] = "spawned"
    /\ xpc' = [xpc EXCEPT ![c] = "parked"]
    /\ UNCHANGED <<cvRefCount, cvWaitVars, cpc, cDone, cCtx, cWokenFirst, cvdpc,
                   cvRelSnap, cvRelK>>
    /\ UNCHANGED notCondVar

\* The auxiliary goroutine after its wake-up: the non-blocking send on done
\* (nobody reads the channel any more once the call has returned), the
\* deferred Unlock, and the goroutine ends.
CvAuxResume(c) ==
    /\ xpc[c] = "woken"
    /\ xpc' = [xpc EXCEPT ![c] = "none"]
    /\ cDone' = [cDone EXCEPT ![c] = (cpc[c] = "select")]
    /\ UNCHANGED <<cvRefCount, cvWaitVars, cpc, cCtx, cWokenFirst, cvdpc,
                   cvRelSnap, cvRelK>>
    /\ UNCHANGED notCondVar

\* The context of a pending call is cancelled, or its timeout expires.
CvCancel(c) ==
    /\ cpc[c] = "select"
    /\ ~cCtx[c]
    /\ cCtx' = [cCtx EXCEPT ![c] = TRUE]
    /\ UNCHANGED <<cvRefCount, cvWaitVars, cpc, xpc, cDone, cWokenFirst, cvdpc,
                   cvRelSnap, cvRelK>>
    /\ UNCHANGED notCondVar

\* select, case result := <-done: return result.
CvSelectDone(c) ==
    /\ cpc[c] = "select"
    /\ cDone[c]
    /\ cpc' = [cpc EXCEPT ![c] = "retTrue"]
    /\ cDone' = [cDone EXCEPT ![c] = FALSE]
    /\ cCtx' = [cCtx EXCEPT ![c] = FALSE]
    /\ UNCHANGED <<cvRefCount, cvWaitVars, xpc, cWokenFirst, cvdpc, cvRelSnap,
                   cvRelK>>
    /\ UNCHANGED notCondVar

\* select, case <-ctx.Done(): mu.Lock(); cond.Signal(); mu.Unlock(); return
\* false.  The case is chosen when the context is done, whether or not done
\* holds a value too.
CvSelectCancel(c) ==
    /\ cpc[c] = "select"
    /\ cCtx[c]
    /\ CondSignal(FALSE)
    /\ cpc' = [cpc EXCEPT ![c] = "retFalse"]
    /\ cDone' = [cDone EXCEPT ![c] = FALSE]
    /\ cCtx' = [cCtx EXCEPT ![c] = FALSE]
    /\ UNCHANGED <<cvRefCount, cvdpc, cvRelSnap, cvRelK>>
    /\ UNCHANGED notCondVar

CvNext ==
    \/ CvClone
    \/ \E d \in CvDroppers : CvDrop(d)
    \/ \E d \in CvDroppers : CvDropBroadcast(d)
    \/ \E w \in CvWaiters : CvWait(w)
    \/ \E w \in CvWaiters : CvWaitResume(w)
    \/ CvSignal
    \/ CvBroadcast
    \/ \E c \in CvCallers : CvWaitWithContext(c)
    \/ \E c \in CvCallers : CvAuxPark(c)
    \/ \E c \in CvCallers : CvAuxResume(c)
    \/ \E c \in CvCallers : CvCancel(c)
    \/ \E c \in CvCallers : CvSelectDone(c)
    \/ \E c \in CvCallers : CvSelectCancel(c)

(***************************************************************************)
(* OnceCell, the LazyCell of the specification (section 4.6): a cell that  *)
(* is Empty or Initialized(value), written at most once.  The operations   *)
(* follow the specification's description of set, get, get_or_init and     *)
(* get_or_init_with_retry.  The backoff sleeps between attempts take time  *)
(* and change no state.                                                    *)
(*                                                                         *)
(* Granularity.  Set and Get are one step each.  GetOrInit settles who     *)
(* runs the initializer in one step and the winner runs it and stores its  *)
(* result in a second one; a loser waits for the value.  Every attempt of  *)
(* GetOrInitWithRetry is a step, and the store after its successful        *)
(* attempt is a step of its own, so that callers race between them.        *)
(*                                                                         *)
(* The initializer given to GetOrInitWithRetry is one function shared by   *)
(* the callers: its first calls fail, at most MaxOcFailures of them, and   *)
(* once a call has succeeded every later call succeeds.                    *)
(***************************************************************************)
OcInit ==
    /\ ocValue = 0
    /\ ocIniter = 0
    /\ ocInitCalls = 0
    /\ ocRetryCalls = 0
    /\ ocFailed = 0
    /\ ocpc = [t \in OcThreads |-> "idle"]
    /\ ocOps = [t \in OcThreads |-> 0]
    /\ ocAttempt = [t \in OcThreads |-> 0]
    /\ ocMax = [t \in OcThreads |-> 0]
    /\ ocLastErr = [t \in OcThreads |-> 0]
    /\ ocRet = [t \in OcThreads |-> 0]
    /\ ocErr = [t \in OcThreads |-> 0]
    /\ ocRetried = [t \in OcThreads |-> FALSE]
    /\ ocInitStartFull = FALSE
    /\ ocGoiSeen = {}
    /\ ocGetSeen = {}
    /\ ocSetTrue = 0
    /\ ocSetWinner = 0
    /\ ocSetWrong = FALSE
    /\ ocSetFalse = FALSE
    /\ ocStoredBy = "none"
    /\ ocBudget = 0

\* The values the callers supply: thread t sets SetValue(t), its initializer
\* for GetOrInit yields InitValue(t) and its initializer for
\* GetOrInitWithRetry, when it succeeds, RetryValue(t).
SetValue(t) == t
InitValue(t) == NumOcThreads + t
RetryValue(t) == NumOcThreads + NumOcThreads + t

\* What the cell holds when it became Initialized without any initializer
\* having succeeded.
NoResult == NumOcThreads + NumOcThreads + NumOcThreads + 1

\* The error returned when max_attempts is zero; the error of the k-th call of
\* the failing initializer is k.
ErrNoAttempts == MaxOcFailures + 1

\* is_initialized()
IsInitialized == ocValue # 0

\* StoreIfEmpty without the test for Empty: the last writer wins.
StoreIfEmpty_Always(cur, v) == v

\* The one-way transition Empty -> Initialized(v): the value after an attempt
\* to store v in a cell holding cur.
StoreIfEmpty(cur, v) == IF cur = 0 THEN v ELSE cur

\* The operations started so far, by all threads together.
RECURSIVE OcOpsUpTo(_)
OcOpsUpTo(n) == IF n = 0 THEN 0 ELSE ocOps[n] + OcOpsUpTo(n - 1)

\* A thread starts an operation; the threads start MaxOcOps operations in all.
OcStart(t) == ocpc[t] = "idle" /\ OcOpsUpTo(NumOcThreads) < MaxOcOps

\* set(value) -> bool: true only if the cell is still Empty at that moment.
OcSet(t) ==
    /\ OcStart(t)
    /\ ocOps' = [ocOps EXCEPT ![t] = @ + 1]
    /\ ocValue' = StoreIfEmpty(ocValue, SetValue(t))
    /\ LET ok == ocValue' # ocValue
       IN  /\ ocSetTrue' = IF ok THEN ocSetTrue + 1 ELSE ocSetTrue
           /\ ocSetWinner' = IF ok THEN SetValue(t) ELSE ocSetWinner
           /\ ocSetWrong' = (ocSetWrong \/ (ok # (ocValue = 0)))
           /\ ocSetFalse' = (ocSetFalse \/ ~ok)
           /\ ocStoredBy' = IF ok THEN "set" ELSE ocStoredBy
    /\ UNCHANGED <<ocIniter, ocInitCalls, ocRetryCalls, ocFailed, ocpc,
                   ocAttempt, ocMax, ocLastErr, ocRet, ocErr, ocRetried,
                   ocInitStartFull, ocGoiSeen, ocGetSeen, ocBudget>>
    /\ UNCHANGED notOnceCell

\* get() -> optional value: nothing if Empty.
OcGet(t) ==
    /\ OcStart(t)
    /\ ocOps' = [ocOps EXCEPT ![t] = @ + 1]
    /\ ocGetSeen' = IF IsInitialized THEN ocGetSeen \cup {ocValue} ELSE ocGetSeen
    /\ UNCHANGED <<ocCell, ocpc, ocAttempt, ocMax, ocLastErr, ocRet, ocErr,
                   ocRetried, ocInitStartFull, ocGoiSeen, ocSetTrue,
                   ocSetWinner, ocSetWrong, ocSetFalse, ocStoredBy, ocBudget>>
    /\ UNCHANGED notOnceCell

\* GetOrInitEntry without the guard that lets one caller only execute init_fn.
GetOrInitEntry_NoGuard(value, initer) ==
    IF value # 0 THEN "return" ELSE "init"

\* What a caller of get_or_init does on arrival: "return" the stored value of
\* an Initialized cell, "init" when it is the one caller that will execute
\* init_fn, "blocked" when another caller is executing it.
GetOrInitEntry(value, initer) ==
    IF value # 0 THEN "return"
    ELSE IF initer = 0 THEN "init"
    ELSE "blocked"

\* get_or_init(init_fn), on arrival.
OcGetOrInit(t) ==
    /\ OcStart(t)
    /\ ocOps' = [ocOps EXCEPT ![t] = @ + 1]
    /\ LET e == GetOrInitEntry(ocValue, ocIniter)
       IN  /\ ocpc' = [ocpc EXCEPT ![t] = IF e = "return" THEN "idle" ELSE e]
           /\ ocIniter' = IF e = "init" THEN t ELSE ocIniter
           /\ ocGoiSeen' = IF e = "return" THEN ocGoiSeen \cup {ocValue}
                           ELSE ocGoiSeen
           /\ ocInitStartFull' = (ocInitStartFull \/ (ocValue # 0 /\ e = "init"))
    /\ UNCHANGED <<ocValue, ocInitCalls, ocRetryCalls, ocFailed, ocAttempt,
                   ocMax, ocLastErr, ocRet, ocErr, ocRetried, ocGetSeen,
                   ocSetTrue, ocSetWinner, ocSetWrong, ocSetFalse, ocStoredBy, ocBudget>>
    /\ UNCHANGED notOnceCell

\* get_or_init: the winner executes init_fn to completion, stores its result
\* and returns the stored value.
OcInitRun(t) ==
    /\ ocpc[t] = "init"
    /\ ocInitCalls' = ocInitCalls + 1
    /\ ocValue' = StoreIfEmpty(ocValue, InitValue(t))
    /\ ocIniter' = 0
    /\ ocGoiSeen' = ocGoiSeen \cup {ocValue'}
    /\ ocStoredBy' = IF ocValue' # ocValue THEN "init" ELSE ocStoredBy
    /\ ocpc' = [ocpc EXCEPT ![t] = "idle"]
    /\ UNCHANGED <<ocRetryCalls, ocFailed, ocOps, ocAttempt, ocMax, ocLastErr,
                   ocRet, ocErr, ocRetried, ocInitStartFull, ocGetSeen,
                   ocSetTrue, ocSetWinner, ocSetWrong, ocSetFalse, ocBudget>>
    /\ UNCHANGED notOnceCell

\* get_or_init: a caller that arrived while another executed init_fn observes
\* and returns the stored value.
OcBlockedResume(t) ==
    /\ ocpc[t] = "blocked"
    /\ IsInitialized
    /\ ocGoiSeen' = ocGoiSeen \cup {ocValue}
    /\ ocpc' = [ocpc EXCEPT ![t] = "idle"]
    /\ UNCHANGED <<ocCell, ocOps, ocAttempt, ocMax, ocLastErr, ocRet, ocErr,
                   ocRetried, ocInitStartFull, ocGetSeen, ocSetTrue,
                   ocSetWinner, ocSetWrong, ocSetFalse, ocStoredBy, ocBudget>>
    /\ UNCHANGED notOnceCell

\* What a caller of get_or_init_with_retry does on arrival: "return" the
\* stored value of an Initialized cell, "fail" at once when max_attempts is
\* zero, else enter the "retry" loop.
RetryEntry(value, max) ==
    IF value # 0 THEN "return"
    ELSE IF max = 0 THEN "fail"
    ELSE "retry"

\* get_or_init_with_retry(init_fn, max_attempts, initial_backoff), on arrival.
OcGetOrInitWithRetry(t, max) ==
    /\ OcStart(t)
    /\ ocOps' = [ocOps EXCEPT ![t] = @ + 1]
    /\ ocMax' = [ocMax EXCEPT ![t] = max]
    /\ LET e == RetryEntry(ocValue, max)
       IN  /\ ocpc' = [ocpc EXCEPT ![t] = IF e = "retry" THEN "retry" ELSE "idle"]
           /\ ocRet' = [ocRet EXCEPT ![t] = IF e = "return" THEN ocValue ELSE 0]
           /\ ocErr' = [ocErr EXCEPT ![t] = IF e = "fail" THEN ErrNoAttempts ELSE 0]
           /\ ocRetried' = [ocRetried EXCEPT ![t] = (e # "retry")]
           /\ ocBudget' = IF e = "retry" THEN ocBudget + max ELSE ocBudget
    /\ UNCHANGED <<ocCell, ocAttempt, ocLastErr, ocInitStartFull, ocGoiSeen,
                   ocGetSeen, ocSetTrue, ocSetWinner, ocSetWrong, ocSetFalse, ocStoredBy>>
    /\ UNCHANGED notOnceCell

\* The shared initializer may fail only while none of its calls has succeeded
\* and fewer than MaxOcFailures have failed.
InitMayFail == ocRetryCalls = ocFailed /\ ocFailed < MaxOcFailures

\* AttemptsRemain counting one attempt too many: the loop gives up one early.
AttemptsRemain_OneEarly(made, max) == made + 1 < max

\* The loop goes on after a failed attempt while attempts remain.
AttemptsRemain(made, max) == made < max

\* CellAfterAllFailed leaving the cell as it was.
CellAfterAllFailed_Untouched(cur) == cur

\* The cell after a call whose every attempt failed: the authors' test "all
\* retries fail" finds IsInitialized() true after such a call on a new cell,
\* with the zero value and the error returned.  An Empty cell becomes
\* Initialized, holding NoResult.
CellAfterAllFailed(cur) == StoreIfEmpty(cur, NoResult)

\* get_or_init_with_retry: one attempt.  A failed attempt that was the last
\* one returns the zero value and the last error.
OcRetryAttempt(t, fails) ==
    /\ ocpc[t] = "retry"
    /\ fails => InitMayFail
    /\ ocRetryCalls' = ocRetryCalls + 1
    /\ IF fails
       THEN /\ ocFailed' = ocFailed + 1
            /\ IF AttemptsRemain(ocAttempt[t] + 1, ocMax[t])
               THEN /\ ocAttempt' = [ocAttempt EXCEPT ![t] = @ + 1]
                    /\ ocLastErr' = [ocLastErr EXCEPT ![t] = ocRetryCalls']
                    /\ UNCHANGED <<ocpc, ocRet, ocErr, ocRetried>>
               ELSE /\ ocAttempt' = [ocAttempt EXCEPT ![t] = 0]
                    /\ ocLastErr' = [ocLastErr EXCEPT ![t] = 0]
                    /\ ocpc' = [ocpc EXCEPT ![t] = "idle"]
                    /\ ocRet' = [ocRet EXCEPT ![t] = 0]
                    /\ ocErr' = [ocErr EXCEPT ![t] = ocRetryCalls']
                    /\ ocRetried' = [ocRetried EXCEPT ![t] = TRUE]
       ELSE /\ ocpc' = [ocpc EXCEPT ![t] = "store"]
            /\ ocAttempt' = [ocAttempt EXCEPT ![t] = @ + 1]
            /\ UNCHANGED <<ocFailed, ocLastErr, ocRet, ocErr, ocRetried>>
    /\ ocValue' = IF fails /\ ~AttemptsRemain(ocAttempt[t] + 1, ocMax[t])
                  THEN CellAfterAllFailed(ocValue)
                  ELSE ocValue
    /\ ocStoredBy' = IF ocValue' # ocValue THEN "failed" ELSE ocStoredBy
    /\ UNCHANGED <<ocIniter, ocInitCalls, ocOps, ocMax, ocInitStartFull,
                   ocGoiSeen, ocGetSeen, ocSetTrue, ocSetWinner, ocSetWrong,
                   ocSetFalse, ocBudget>>
    /\ UNCHANGED notOnceCell

\* RetryResult returning the caller's own value although another was stored.
RetryResult_Own(stored, own) == own

\* What a caller whose attempt succeeded returns: the stored value, which is
\* its own only if it won the single-assignment race.
RetryResult(stored, own) == stored

\* get_or_init_with_retry: after the first success the caller stores the
\* value, unless the cell was filled meanwhile, and returns the stored value.
OcRetryStore(t) ==
    /\ ocpc[t] = "store"
    /\ ocValue' = StoreIfEmpty(ocValue, RetryValue(t))
    /\ ocStoredBy' = IF ocValue' # ocValue THEN "retry" ELSE ocStoredBy
    /\ ocRet' = [ocRet EXCEPT ![t] = RetryResult(ocValue', RetryValue(t))]
    /\ ocErr' = [ocErr EXCEPT ![t] = 0]
    /\ ocRetried' = [ocRetried EXCEPT ![t] = TRUE]
    /\ ocAttempt' = [ocAttempt EXCEPT ![t] = 0]
    /\ ocLastErr' = [ocLastErr EXCEPT ![t] = 0]
    /\ ocpc' = [ocpc EXCEPT ![t] = "idle"]
    /\ UNCHANGED <<ocIniter, ocInitCalls, ocRetryCalls, ocFailed, ocOps, ocMax,
                   ocInitStartFull, ocGoiSeen, ocGetSeen, ocSetTrue,
                   ocSetWinner, ocSetWrong, ocSetFalse, ocBudget>>
    /\ UNCHANGED notOnceCell

OcNext ==
    \/ \E t \in OcThreads : OcSet(t)
    \/ \E t \in OcThreads : OcGet(t)
    \/ \E t \in OcThreads : OcGetOrInit(t)
    \/ \E t \in OcThreads : OcInitRun(t)
    \/ \E t \in OcThreads : OcBlockedResume(t)
    \/ \E t \in OcThreads, max \in 0..MaxOcAttempts : OcGetOrInitWithRetry(t, max)
    \/ \E t \in OcThreads, fails \in BOOLEAN : OcRetryAttempt(t, fails)
    \/ \E t \in OcThreads : OcRetryStore(t)

(***************************************************************************)
(* RWArcMutex (pkg/rwarcmutex/rwarcmutex.go).  Clone returns the receiver, *)
(* so every handle is the same *RWArcMutex: one mu, refcnt, value, closed. *)
(*                                                                         *)
(* Granularity.  closed.Load(), closed.Store(), refcnt.Add() and the plain *)
(* write m.value = nil are one step each.  mu.RLock() is one step, enabled *)
(* while no writer holds or awaits the lock; mu.Lock() first excludes      *)
(* other writers and later readers, then waits for the readers inside to   *)
(* leave (sync.RWMutex).  The fn of the writers is the increment of the    *)
(* stress test, a load and a store; the deferred unlock runs with the last *)
(* step of fn.  Drop writes m.value without holding mu: a caller that      *)
(* passed the closed check before may read either pointer.  Dereferencing  *)
(* the nil pointer in fn panics, which ends the program.                   *)
(***************************************************************************)
RwInit ==
    /\ rwRefcnt = 1
    /\ rwClosed = FALSE
    /\ rwValueNil = FALSE
    /\ rwData = 0
    /\ rwWriter = 0
    /\ rwReaders = {}
    /\ rwpc = [t \in RwThreads |-> "idle"]
    /\ rwTmp = [t \in RwThreads |-> 0]
    /\ rwOps = 0
    /\ rwIncs = 0
    /\ rwReleased = FALSE
    /\ rwLate = [t \in RwThreads |-> FALSE]
    /\ rwPanicked = FALSE

\* A thread starts a call; the threads make MaxRwOps calls in all.
RwStart(t) == rwpc[t] = "idle" /\ rwOps < MaxRwOps /\ ~rwPanicked

\* The call starts: counted, and marked when the Drop that took refcnt to 0
\* has completed before.
RwBegin(t) ==
    /\ RwStart(t)
    /\ rwOps' = rwOps + 1
    /\ rwLate' = [rwLate EXCEPT ![t] = rwReleased]

\* IsClosed never seeing the flag.
IsClosed_Never(closed) == FALSE

\* m.closed.Load() in Clone, WithRLock and WithLock.
IsClosed(closed) == closed

\* sync.RWMutex: RLock proceeds while no writer holds or awaits the lock.
CanRLock(writer) == writer = 0

\* CanLock not waiting for the readers.
CanLock_Always(readers) == TRUE

\* sync.RWMutex: Lock, having excluded other writers, proceeds once the
\* readers inside have left.
CanLock(readers) == readers = {}

\* Clone, lines 40-42: the closed check.
RwClone(t) ==
    /\ RwBegin(t)
    /\ rwpc' = [rwpc EXCEPT ![t] = IF IsClosed(rwClosed) THEN "idle" ELSE "cloneAdd"]
    /\ UNCHANGED <<rwRefcnt, rwClosed, rwValueNil, rwData, rwWriter, rwReaders,
                   rwTmp, rwIncs, rwReleased, rwPanicked>>
    /\ UNCHANGED notRw

\* Clone, line 43: m.refcnt.Add(1).
RwCloneAdd(t) ==
    /\ rwpc[t] = "cloneAdd" /\ ~rwPanicked
    /\ rwRefcnt' = rwRefcnt + 1
    /\ rwpc' = [rwpc EXCEPT ![t] = "idle"]
    /\ UNCHANGED <<rwClosed, rwValueNil, rwData, rwWriter, rwReaders, rwTmp,
                   rwOps, rwIncs, rwReleased, rwLate, rwPanicked>>
    /\ UNCHANGED notRw

\* Drop, line 52: m.refcnt.Add(-1) == 0.
RwDrop(t) ==
    /\ RwBegin(t)
    /\ rwRefcnt' = rwRefcnt - 1
    /\ rwpc' = [rwpc EXCEPT ![t] = IF rwRefcnt' = 0 THEN "dropClose" ELSE "idle"]
    /\ UNCHANGED <<rwClosed, rwValueNil, rwData, rwWriter, rwReaders, rwTmp,
                   rwIncs, rwReleased, rwPanicked>>
    /\ UNCHANGED notRw

\* Drop, line 53: m.closed.Store(true).
RwDropClose(t) ==
    /\ rwpc[t] = "dropClose" /\ ~rwPanicked
    /\ rwClosed' = TRUE
    /\ rwpc' = [rwpc EXCEPT ![t] = "dropNil"]
    /\ UNCHANGED <<rwRefcnt, rwValueNil, rwData, rwWriter, rwReaders, rwTmp,
                   rwOps, rwIncs, rwReleased, rwLate, rwPanicked>>
    /\ UNCHANGED notRw

\* Drop, line 54: m.value = nil; the Drop returns.
RwDropNil(t) ==
    /\ rwpc[t] = "dropNil" /\ ~rwPanicked
    /\ rwValueNil' = TRUE
    /\ rwReleased' = TRUE
    /\ rwpc' = [rwpc EXCEPT ![t] = "idle"]
    /\ UNCHANGED <<rwRefcnt, rwClosed, rwData, rwWriter, rwReaders, rwTmp,
                   rwOps, rwIncs, rwLate, rwPanicked>>
    /\ UNCHANGED notRw

\* WithRLock, lines 68-70: the closed check.
RwWithRLock(t) ==
    /\ RwBegin(t)
    /\ rwpc' = [rwpc EXCEPT ![t] = IF IsClosed(rwClosed) THEN "idle" ELSE "rlock"]
    /\ UNCHANGED <<rwRefcnt, rwClosed, rwValueNil, rwData, rwWriter, rwReaders,
                   rwTmp, rwIncs, rwReleased, rwPanicked>>
    /\ UNCHANGED notRw

\* WithRLock, line 71: m.mu.RLock().
RwRLock(t) ==
    /\ rwpc[t] = "rlock" /\ ~rwPanicked
    /\ CanRLock(rwWriter)
    /\ rwReaders' = rwReaders \cup {t}
    /\ rwpc' = [rwpc EXCEPT ![t] = "rfn"]
    /\ UNCHANGED <<rwRefcnt, rwClosed, rwValueNil, rwData, rwWriter, rwTmp,
                   rwOps, rwIncs, rwReleased, rwLate, rwPanicked>>
    /\ UNCHANGED notRw

\* WithRLock, lines 72-73: fn(m.value) reads *v, then the deferred RUnlock.
\* seesNil: the read of m.value yields the nil pointer Drop wrote.
RwReadFn(t, seesNil) ==
    /\ rwpc[t] = "rfn" /\ ~rwPanicked
    /\ seesNil => rwValueNil
    /\ rwPanicked' = seesNil
    /\ rwReaders' = rwReaders \ {t}
    /\ rwpc' = [rwpc EXCEPT ![t] = "idle"]
    /\ UNCHANGED <<rwRefcnt, rwClosed, rwValueNil, rwData, rwWriter, rwTmp,
                   rwOps, rwIncs, rwReleased, rwLate>>
    /\ UNCHANGED notRw

\* WithLock, lines 78-80: the closed check.
RwWithLock(t) ==
    /\ RwBegin(t)
    /\ rwpc' = [rwpc EXCEPT ![t] = IF IsClosed(rwClosed) THEN "idle" ELSE "wlock"]
    /\ UNCHANGED <<rwRefcnt, rwClosed, rwValueNil, rwData, rwWriter, rwReaders,
                   rwTmp, rwIncs, rwReleased, rwPanicked>>
    /\ UNCHANGED notRw

\* WithLock, line 81: m.mu.Lock() excludes other writers and later readers.
RwLockAnnounce(t) ==
    /\ rwpc[t] = "wlock" /\ ~rwPanicked
    /\ rwWriter = 0
    /\ rwWriter' = t
    /\ rwpc' = [rwpc EXCEPT ![t] = "wwait"]
    /\ UNCHANGED <<rwRefcnt, rwClosed, rwValueNil, rwData, rwReaders, rwTmp,
                   rwOps, rwIncs, rwReleased, rwLate, rwPanicked>>
    /\ UNCHANGED notRw

\* WithLock, line 81: m.mu.Lock() returns once the readers have left.
RwLockAcquire(t) ==
    /\ rwpc[t] = "wwait" /\ ~rwPanicked
    /\ CanLock(rwReaders)
    /\ rwpc' = [rwpc EXCEPT ![t] = "wfn"]
    /\ UNCHANGED <<rwRefcnt, rwClosed, rwValueNil, rwData, rwWriter, rwReaders,
                   rwTmp, rwOps, rwIncs, rwReleased, rwLate, rwPanicked>>
    /\ UNCHANGED notRw

\* WithLock, line 83: fn(m.value) loads *v.  On a nil pointer it panics and
\* the deferred Unlock runs.
RwWriteLoad(t, seesNil) ==
    /\ rwpc[t] = "wfn" /\ ~rwPanicked
    /\ seesNil => rwValueNil
    /\ rwPanicked' = seesNil
    /\ rwTmp' = [rwTmp EXCEPT ![t] = IF seesNil THEN 0 ELSE rwData]
    /\ rwWriter' = IF seesNil /\ rwWriter = t THEN 0 ELSE rwWriter
    /\ rwpc' = [rwpc EXCEPT ![t] = IF seesNil THEN "idle" ELSE "wstore"]
    /\ UNCHANGED <<rwRefcnt, rwClosed, rwValueNil, rwData, rwReaders, rwOps,
                   rwIncs, rwReleased, rwLate>>
    /\ UNCHANGED notRw

\* WithLock, lines 82-83: fn stores *v + 1, then the deferred Unlock.
RwWriteStore(t) ==
    /\ rwpc[t] = "wstore" /\ ~rwPanicked
    /\ rwData' = rwTmp[t] + 1
    /\ rwIncs' = rwIncs + 1
    /\ rwTmp' = [rwTmp EXCEPT ![t] = 0]
    /\ rwWriter' = IF rwWriter = t THEN 0 ELSE rwWriter
    /\ rwpc' = [rwpc EXCEPT ![t] = "idle"]
    /\ UNCHANGED <<rwRefcnt, rwClosed, rwValueNil, rwReaders, rwOps,
                   rwReleased, rwLate, rwPanicked>>
    /\ UNCHANGED notRw

RwNext ==
    \/ \E t \in RwThreads : RwClone(t)
    \/ \E t \in RwThreads : RwCloneAdd(t)
    \/ \E t \in RwThreads : RwDrop(t)
    \/ \E t \in RwThreads : RwDropClose(t)
    \/ \E t \in RwThreads : RwDropNil(t)
    \/ \E t \in RwThreads : RwWithRLock(t)
    \/ \E t \in RwThreads : RwRLock(t)
    \/ \E t \in RwThreads, seesNil \in BOOLEAN : RwReadFn(t, seesNil)
    \/ \E t \in RwThreads : RwWithLock(t)
    \/ \E t \in RwThreads : RwLockAnnounce(t)
    \/ \E t \in RwThreads : RwLockAcquire(t)
    \/ \E t \in RwThreads, seesNil \in BOOLEAN : RwWriteLoad(t, seesNil)
    \/ \E t \in RwThreads : RwWriteStore(t)

\* Every primitive freshly constructed.
Init ==
    ArcInit /\ AmInit /\ BarrierInit /\ CvInit /\ OcInit /\ RwInit /\ EqInit

\* The same, with the barrier made for NumBarrierThreads participants: the
\* initial state of the specifications in which the barrier is not used.
InitOneBarrier == Init /\ bCount = NumBarrierThreads

SpecOnceCell == InitOneBarrier /\ [][OcNext]_vars

SpecRWArcMutex == InitOneBarrier /\ [][RwNext]_vars

SpecCondVar == InitOneBarrier /\ [][CvNext]_vars

\* The scheduler runs every runnable goroutine: a woken caller of Wait and a
\* woken auxiliary goroutine re-acquire mu, a started auxiliary goroutine
\* reaches cond.Wait, and a Drop that has decremented goes on to its critical
\* section.  Nothing obliges the users to call Signal, Broadcast, Clone or Drop,
\* or to cancel a context.
CvFairness ==
    /\ \A w \in CvWaiters : WF_vars(CvWaitResume(w))
    /\ \A c \in CvCallers : WF_vars(CvAuxPark(c))
    /\ \A c \in CvCallers : WF_vars(CvAuxResume(c))
    /\ \A d \in CvDroppers : WF_vars(CvDropBroadcast(d))

FairSpecCondVar == SpecCondVar /\ CvFairness

SpecBarrier == Init /\ [][BarrierNext]_vars

\* The scheduler runs every runnable goroutine: a caller made runnable by
\* Broadcast re-acquires mu (sync.Mutex hands a starving waiter the lock), and
\* a Drop that has decremented goes on to its critical section.
BarrierFairness ==
    /\ \A t \in BarrierThreads : WF_vars(BarrierWaitResume(t))
    /\ \A d \in BarrierDroppers : WF_vars(BarrierDropBreak(d))

FairSpecBarrier == SpecBarrier /\ BarrierFairness

\* Goroutines that call Wait in a loop: a goroutine that has returned calls
\* Wait again, until MaxGen cycles are complete.
FairSpecBarrierLoop ==
    FairSpecBarrier /\ WF_vars(\E t \in BarrierThreads : BarrierWait(t))

\* History: thread t makes the call name; record a non-blocking call that
\* finds the mutex held by another goroutine.
Called(t, name) ==
    mRefused' = IF amValid[t] /\ amMu # 0 /\ name \in {"TryWithLock", "TryLockNoWait"}
                THEN mRefused \cup {name}
                ELSE mRefused

AmNext ==
    \/ \E t \in MutexThreads : WithLock(t) /\ Called(t, "WithLock")
    \/ \E t \in MutexThreads : TryWithLock(t) /\ Called(t, "TryWithLock")
    \/ \E t \in MutexThreads, timeout \in {-1, 0, 1} :
            /\ TryLock(t, timeout)
            /\ Called(t, IF timeout > 0 THEN "TryLock" ELSE "TryLockNoWait")
    \/ \E t \in MutexThreads, expired \in BOOLEAN : TryLockPoll(t, expired)
    \/ \E t \in MutexThreads : FnLoad(t)
    \/ \E t \in MutexThreads : FnStore(t)
    \/ \E t \in MutexThreads : FnPanic(t)
    \/ \E t \in MutexThreads : Unlock(t)
    \/ \E t \in MutexThreads : AmDrop(t)
    \/ \E t \in MutexThreads : IsLocked(t)
    \/ \E t \in MutexThreads : IsLockedUnlock(t)

SpecArcMutex == InitOneBarrier /\ [][AmNext]_vars

\* Reference counting of Barrier and CondVar side by side: handles are cloned
\* from live objects only (Clone on an object whose count is 0 is a use after
\* the last Drop), dropped in any order and any number of times, while
\* goroutines wait on both objects.
RefCountNext ==
    \/ bRefCount > 0 /\ BarrierClone
    \/ \E d \in BarrierDroppers : BarrierDrop(d)
    \/ \E d \in BarrierDroppers : BarrierDropBreak(d)
    \/ \E t \in BarrierThreads : BarrierWait(t)
    \/ \E t \in BarrierThreads : BarrierWaitResume(t)
    \/ cvRefCount > 0 /\ CvClone
    \/ \E d \in CvDroppers : CvDrop(d)
    \/ \E d \in CvDroppers : CvDropBroadcast(d)
    \/ \E w \in CvWaiters : CvWait(w)
    \/ \E w \in CvWaiters : CvWaitResume(w)

SpecRefCount == InitOneBarrier /\ [][RefCountNext]_vars

EqNext ==
    \/ \E h \in EqHandles : EqDrop(h)
    \/ \E h1, h2 \in EqHandles \cup {NilHandle} : EqEqual(h1, h2)

SpecEqual == InitOneBarrier /\ [][EqNext]_vars

ArcNext ==
    \/ \E t \in ArcThreads, h \in Handles : CloneAdd(t, h)
    \/ \E t \in ArcThreads, h \in Handles : ClonePanic(t, h)
    \/ \E t \in ArcThreads : CloneFinish(t)
    \/ \E t \in ArcThreads, h \in Handles \cup {NilHandle},
          count \in -1..MaxCloneMany : CloneManyAdd(t, h, count)
    \/ \E t \in ArcThreads : CloneManyFinish(t)
    \/ \E t \in ArcThreads, h \in Handles : DropAdd(t, h)
    \/ \E t \in ArcThreads : DropFinish(t)

SpecArc == InitOneBarrier /\ [][ArcNext]_vars

\* The callers kept the contract of C1: every Clone was called on a handle not
\* yet dropped, and every handle was dropped exactly once; no call is running.
ArcAllDroppedOnce ==
    /\ ~cloneStale
    /\ \A t \in ArcThreads : apc[t] = "idle"
    /\ repeatedDrops = 0
    /\ \A h \in ExistingHandles : hDropped[h]

\* C1: after N Clone calls on live handles and exactly one Drop on each of the
\* N+1 handles, under every interleaving, the shared reference count is 0 and
\* exactly one Drop call returned true.
C1_DropAllReleasesOnce ==
    ArcAllDroppedOnce => (arcRefCount = 0 /\ dropTrue = 1)

\* C1 witness: two clones were made and all three handles dropped once.
C1_Witness ==
    /\ ArcAllDroppedOnce
    /\ Cardinality(ExistingHandles) = MaxHandles
    /\ dropTrue = 1

\* Every thread has completed its IncrementsPerThread successful calls.
AmAllDone ==
    \A t \in MutexThreads : mpc[t] = "idle" /\ mDone[t] = IncrementsPerThread

\* C2: when M threads each perform K increments through WithLock, TryWithLock
\* or TryLock (retried until they return true), the payload ends at M*K.
C2_NoLostUpdate ==
    AmAllDone => amData = NumMutexThreads * IncrementsPerThread

\* C2 witness: all increments are done and every handle has been dropped.
C2_Witness ==
    /\ AmAllDone
    /\ amData = NumMutexThreads * IncrementsPerThread
    /\ amRefCount = 0

\* C3: on a barrier that is not dropped or reset, no Wait returns true before
\* bCount calls have arrived in its round, and while the current round has
\* fewer than bCount arrivals every caller of that round is parked: none has
\* been woken and none has returned.
C3_NoEarlyRelease ==
    NotDroppedOrReset =>
        /\ ~bTrueEarly
        /\ ~bFalseLive
        /\ Cardinality(BarrierParked) = bArrived
        /\ \A t \in BarrierInWait : bEp[t] = bEpoch => bpc[t] = "parked"

\* C3 witness: a full round of NumBarrierThreads has completed and the next
\* round has all but one of its callers blocked.
C3_Witness ==
    /\ NotDroppedOrReset
    /\ bCount = NumBarrierThreads
    /\ bEpoch = 1
    /\ bArrived = bCount - 1
    /\ Cardinality(BarrierParked) = bCount - 1

\* C4: on a barrier that is not dropped or reset, the bCount-th caller of a
\* round does not block (nobody is ever parked in a completed round) and no
\* Wait returns false; under fair scheduling every caller woken by the last
\* arrival returns.
C4_RoundCompletes ==
    /\ [](NotDroppedOrReset =>
            /\ ~bFalseLive
            /\ \A t \in BarrierParked : bEp[t] = bEpoch)
    /\ \A t \in BarrierThreads : (bpc[t] = "woken") ~> (bpc[t] = "idle")

\* C4 witness: a round of NumBarrierThreads callers has completed and all of
\* them have returned (true, as no Wait has returned false).
C4_Witness ==
    /\ NotDroppedOrReset
    /\ bCount = NumBarrierThreads
    /\ bEpoch = 1
    /\ bArrived = 0
    /\ BarrierInWait = {}
    /\ ~bFalseLive

BrokenAndDrained ==
    /\ bBroken
    /\ bRelK >= 1
    /\ bRelSnap = {}
    /\ ~bRelTrue
    /\ ~bLateArrival
    /\ BarrierInWait = {}
    /\ \A d \in BarrierDroppers : dpc[d] = "idle"

\* C6: once the barrier is broken and drained, Reset(n) does not panic.
C6_ResetRecovers ==
    BrokenAndDrained => ~ResetPanics(bWaiting)

\* C7: a caller parked in Wait is made runnable, and so returns, only through
\* a Signal call, a Broadcast call or the releasing Drop: the number of
\* returned Wait calls does not grow without one of them.
C7_WaitReturnsOnlyWhenSignalled ==
    \A w \in CvWaiters : wpc[w] = "woken" => ~wSpurious[w]

\* C8: WaitWithContext returns false only if its context was done before any
\* Signal, Broadcast or releasing Drop woke its auxiliary waiter; a call whose
\* waiter was woken first returns true.
C8_FalseOnlyIfCancelledFirst ==
    \A c \in CvCallers : cpc[c] = "retFalse" => ~cWokenFirst[c]

\* C9: when WaitWithContext has returned false, the Signal it issued has
\* reached its own auxiliary goroutine, which is runnable or has ended.  (An
\* auxiliary goroutine that is parked, or still on its way to cond.Wait, after
\* the return stays in cond.Wait until some user wakes it.)
C9_CancelWakesOwnAux ==
    \A c \in CvCallers : cpc[c] = "retFalse" => xpc[c] \in {"woken", "none"}

\* C10: every caller parked in Wait when a Drop takes refCount from 1 to 0
\* returns, under fair scheduling.
C10_DropWakesParked ==
    \A w \in CvWaiters : (w \in cvRelSnap) ~> (w \notin cvRelSnap)

\* C10 witness: the releasing Drop found all NumCvWaiters callers parked, has
\* finished, and all of them have returned.
C10_Witness ==
    /\ cvRefCount = 0
    /\ cvRelK = NumCvWaiters
    /\ cvRelSnap = {}
    /\ \A w \in CvWaiters : wpc[w] = "idle"
    /\ \A d \in CvDroppers : cvdpc[d] = "idle"

\* C11: callers of GetOrInit, however they interleave, run the initializer at
\* most once in total, and exactly once when it is GetOrInit that filled the
\* cell; every value a GetOrInit call has returned is the one stored value;
\* no GetOrInit that found the cell Initialized went on to the initializer.
C11_GetOrInitOnce ==
    /\ ocInitCalls <= 1
    /\ ocGoiSeen \subseteq {ocValue}
    /\ Cardinality(ocGoiSeen) <= 1
    /\ (ocStoredBy = "init" => ocInitCalls = 1)
    /\ 0 \notin ocGoiSeen
    /\ ~ocInitStartFull

\* Two callers raced on the Empty cell: one ran the initializer and returned
\* its value, the other is about to observe that value.
C11_Witness ==
    /\ ocStoredBy = "init"
    /\ ocInitCalls = 1
    /\ ocGoiSeen = {ocValue}
    /\ \E t \in OcThreads : ocpc[t] = "blocked"

\* C12: at most one Set returns true, and it is a Set that found the cell
\* Empty; a Set that finds the cell Initialized returns false; once the cell
\* is Initialized its value never changes, so the cell holds the value of the
\* Set that returned true and every Get of an Initialized cell returned it.
C12_SetOnce ==
    /\ [](/\ ocSetTrue <= 1
          /\ ~ocSetWrong
          /\ (ocStoredBy = "set" <=> ocSetTrue = 1)
          /\ (ocSetWinner # 0 => ocValue = ocSetWinner)
          /\ ocGetSeen \subseteq {ocValue}
          /\ 0 \notin ocGetSeen)
    /\ [][ocValue # 0 => ocValue' = ocValue]_vars

\* Two Sets raced on the Empty cell: one returned true, the other false, and
\* a Get returned the winner's value.
C12_Witness ==
    /\ ocSetTrue = 1
    /\ ocSetFalse
    /\ ocGetSeen = {ocSetWinner}

\* Thread t has made one call, a completed GetOrInitWithRetry, and no other
\* thread has touched the cell.
OcSoleRetry(t) ==
    /\ ocOps[t] = 1
    /\ ocRetried[t]
    /\ \A u \in OcThreads \ {t} : ocOps[u] = 0

\* C13: a single GetOrInitWithRetry on an Empty cell with max_attempts >= 3
\* whose initializer failed on its first 2 calls and succeeded on the 3rd
\* returns the success value and no error, leaves the cell Initialized with
\* that value, and invoked the initializer exactly 3 times.  In general a
\* call never invokes the initializer more than max_attempts times, and a
\* single caller never invokes it again after its first success.
C13_RetryThenSuccess ==
    /\ \A t \in OcThreads : ocAttempt[t] <= ocMax[t]
    /\ ocRetryCalls <= ocBudget
    /\ \A t \in OcThreads :
          OcSoleRetry(t) =>
            /\ ocRetryCalls <= ocFailed + 1
            /\ (ocFailed = 2 /\ ocMax[t] >= 3) =>
                  /\ ocErr[t] = 0
                  /\ ocRet[t] = RetryValue(t)
                  /\ ocValue = RetryValue(t)
                  /\ ocRetryCalls = 3

\* A single call with max_attempts 3 has returned after two failures and a
\* success.
C13_Witness ==
    \E t \in OcThreads :
        /\ OcSoleRetry(t)
        /\ ocMax[t] = 3
        /\ ocFailed = 2
        /\ ocRetryCalls = 3
        /\ ocRet[t] = RetryValue(t)

\* Thread t is the only one to have touched the cell, and its first call was
\* a GetOrInitWithRetry that made at least one attempt and returned an error.
OcSoleFailedRetry(t) ==
    /\ ocRetried[t]
    /\ ocErr[t] # 0
    /\ ocMax[t] > 0
    /\ \A u \in OcThreads \ {t} : ocOps[u] = 0

\* C14: a single caller whose GetOrInitWithRetry returned after every
\* attempt failed got the error of the last attempt and finds the cell Empty
\* as long as it makes no further call; a Set it makes afterwards returns
\* true.
C14_FailedRetryLeavesEmpty ==
    \A t \in OcThreads :
        OcSoleFailedRetry(t) =>
          /\ ocErr[t] = ocFailed
          /\ (ocOps[t] = 1 => ~IsInitialized)
          /\ ~ocSetFalse

OcCallers == {t \in OcThreads : ocOps[t] > 0}

\* Every thread that has called the cell made one call, a GetOrInitWithRetry
\* that has returned and whose max_attempts exceeds the number of failures of
\* the initializer, and at least two threads did.
OcRetryRace ==
    /\ Cardinality(OcCallers) >= 2
    /\ \A t \in OcCallers :
          ocOps[t] = 1 /\ ocRetried[t] /\ ocMax[t] > ocFailed

\* C16: when several callers, each with more attempts than the initializer
\* has failures, call GetOrInitWithRetry on the Empty cell, every caller
\* returns the one stored value, a value some caller's initializer produced,
\* with a nil error; the initializer ran at least once more than it failed
\* and at most max_attempts times per caller.
C16_RetryRaceAgrees ==
    OcRetryRace =>
      /\ \A t \in OcCallers : ocErr[t] = 0 /\ ocRet[t] = ocValue
      /\ \E t \in OcCallers : ocValue = RetryValue(t)
      /\ ocRetryCalls >= ocFailed + 1
      /\ ocRetryCalls <= ocBudget

\* Two callers entered the retry loop on the Empty cell; after a failure the
\* initializer succeeded for both, and the one that lost the race returned
\* the other's value.
C16_Witness ==
    /\ OcRetryRace
    /\ ocFailed >= 1
    /\ ocRetryCalls >= ocFailed + 2
    /\ \E t \in OcCallers : ocRet[t] # RetryValue(t)

\* The threads executing the fn of WithLock, and those executing the fn of
\* WithRLock.
RwWriting == {t \in RwThreads : rwpc[t] \in {"wfn", "wstore"}}
RwReading == {t \in RwThreads : rwpc[t] = "rfn"}

\* C17: in every reachable state either no writer fn executes, or exactly one
\* does and no reader fn executes; whenever no writer fn executes the payload
\* equals the number of increments the writers have completed.
C17_RwExclusion ==
    /\ \/ RwWriting = {}
       \/ Cardinality(RwWriting) = 1 /\ RwReading = {}
    /\ (RwWriting = {} => rwData = rwIncs)

\* Two increments are done; one thread is inside the fn of WithLock for a
\* third while another waits at m.mu.Lock().
C17_Witness ==
    \E t, u \in RwThreads :
        /\ rwpc[t] = "wstore"
        /\ rwpc[u] = "wlock"
        /\ rwIncs = 2
        /\ rwData = 2

\* C18: a call of Clone, WithRLock or WithLock that started after the Drop
\* that took refcnt to 0 had completed returned at its closed check: it is not
\* waiting for the lock, not inside fn and not about to add to refcnt.
C18_ClosedCallsReturn ==
    \A t \in RwThreads :
        rwLate[t] => rwpc[t] \in {"idle", "dropClose", "dropNil"}

\* After the releasing Drop completed, a thread made a call that returned at
\* once, with refcnt still 0.
C18_Witness ==
    \E t \in RwThreads :
        /\ rwLate[t]
        /\ rwpc[t] = "idle"
        /\ rwRefcnt = 0
        /\ rwClosed

\* C19: a Drop call on a handle on which Drop was called before returns
\* false at once and leaves the shared reference count unchanged: the step
\* that starts such a call changes neither the count nor any goroutine's
\* position.
C19_RepeatedDropNoOp ==
    [][repeatedDrops' # repeatedDrops
         => (arcRefCount' = arcRefCount /\ apc' = apc)]_vars

\* C20: the shared reference count is never negative, whatever Clone,
\* CloneMany and Drop calls are made, repeated Drops included.
C20_RefCountNonNegative == arcRefCount >= 0

\* Thread t is inside a scoped call, between its acquisition and its
\* deferred Unlock.
AmInCall(t) == mpc[t] \in {"fn", "fnWrite", "unlock", "unwind"}

\* C21: WithLock, WithLockResult, TryWithLock and TryLock release the mutex on
\* every exit path of fn, a panic included: the mutex is held only by a thread
\* that is still inside its call (or inside an IsLocked probe), so once every
\* call has returned or unwound the mutex is free and the next WithLock
\* acquires it.
C21_ReleasedOnEveryExit ==
    /\ amMu # 0 => (AmInCall(amMu) \/ mpc[amMu] = "probe")
    /\ \A t \in MutexThreads : AmInCall(t) => amMu = t

\* A call whose fn panicked has unwound, and a later call holds the mutex.
C21_Witness ==
    /\ mPanicked
    /\ \E t \in MutexThreads : mpc[t] = "fn" /\ amMu = t

\* C22: TryWithLock never blocks: an idle thread can always take its
\* TryWithLock step; when the mutex is held at that moment (or the handle is
\* invalid) the call returns false at once, fn is not started and payload and
\* lock are untouched; when it acquires the mutex it returns true and fn runs
\* under the lock, completing at most one increment before the Unlock.
C22_TryWithLockNeverBlocks ==
    /\ [](\A t \in MutexThreads :
            (mpc[t] = "idle" /\ mDone[t] < IncrementsPerThread)
                => ENABLED TryWithLock(t))
    /\ [][\A t \in MutexThreads :
            TryWithLock(t) =>
                IF amMu # 0 \/ ~amValid[t]
                THEN /\ mRet'[t] = FALSE
                     /\ mpc'[t] = "idle"
                     /\ amData' = amData
                     /\ amMu' = amMu
                ELSE /\ mRet'[t] = TRUE
                     /\ mpc'[t] = "fn"
                     /\ amMu' = t]_vars
    /\ [][\A t \in MutexThreads :
            mDone'[t] # mDone[t] =>
                /\ amMu = t
                /\ mpc[t] = "fnWrite" /\ mpc'[t] = "unlock"
                /\ mDone'[t] = mDone[t] + 1]_vars

\* TryWithLock has returned false to t while another thread holds the mutex
\* inside its fn.
C22_Witness ==
    /\ mRefused = {"TryWithLock"}
    /\ \E t, u \in MutexThreads :
            /\ t # u
            /\ mpc[t] = "idle" /\ mRet[t] = FALSE /\ amValid[t]
            /\ amMu = u /\ mpc[u] = "fnWrite"

\* C23: TryLock(timeout, fn) with timeout <= 0 equals TryWithLock(fn): from
\* every state, a step is a TryLock step with timeout 0 or -1 exactly when
\* it is a TryWithLock step; so both make one attempt, return the same
\* boolean and leave payload, lock and caller in the same state.
C23_TryLockNoWaitIsTryWithLock ==
    [][\A t \in MutexThreads : \A timeout \in {-1, 0} :
            TryLock(t, timeout) <=> TryWithLock(t)]_vars

\* TryLock with a timeout <= 0 has returned false to t at once while another
\* thread holds the mutex inside its fn.
C23_Witness ==
    /\ mRefused = {"TryLockNoWait"}
    /\ \E t, u \in MutexThreads :
            /\ t # u
            /\ mpc[t] = "idle" /\ mRet[t] = FALSE /\ amValid[t]
            /\ amMu = u /\ mpc[u] = "fn"

\* C24: a handle on which Drop has been called degrades: WithLock,
\* WithLockResult, TryWithLock and TryLock on it do not invoke fn, whether
\* its Drop released the data or other handles were still live.
C24_DroppedHandleDegrades ==
    \A t \in MutexThreads : amDropped[t] => ~AmInCall(t)

\* The Drop calls of the Barrier, and of the CondVar, that are inside their
\* release section.
BarrierReleasing == {d \in BarrierDroppers : dpc[d] = "dropBreak"}

CvReleasing == {d \in CvDroppers : cvdpc[d] = "broadcast"}

\* C25: CondVar and Barrier reference counting, handles cloned first and then
\* dropped any number of times in any interleaving: refCount is never
\* negative; a Drop enters the release section (broken := true plus Broadcast
\* for the Barrier, Broadcast for the CondVar) exactly on the step that takes
\* the count from 1 to 0; the Barrier is broken only by that release; once
\* the count is 0 it stays 0 and no further Drop releases again.
C25_RefCountRelease ==
    /\ [](bRefCount >= 0 /\ cvRefCount >= 0)
    /\ [](Cardinality(BarrierReleasing) <= 1 /\ Cardinality(CvReleasing) <= 1)
    /\ [](bBroken => (bRefCount = 0 /\ bDropped))
    /\ [][\A d \in BarrierDroppers :
            (d \notin BarrierReleasing /\ d \in BarrierReleasing')
                <=> (BarrierDrop(d) /\ bRefCount = 1 /\ bRefCount' = 0)]_vars
    /\ [][\A d \in CvDroppers :
            (d \notin CvReleasing /\ d \in CvReleasing')
                <=> (CvDrop(d) /\ cvRefCount = 1 /\ cvRefCount' = 0)]_vars
    /\ [][bRefCount' < bRefCount => bRefCount' = bRefCount - 1]_vars
    /\ [][cvRefCount' < cvRefCount => cvRefCount' = cvRefCount - 1]_vars
    /\ [][bRefCount = 0 =>
            (bRefCount' = 0 /\ BarrierReleasing' \subseteq BarrierReleasing)]_vars
    /\ [][cvRefCount = 0 =>
            (cvRefCount' = 0 /\ CvReleasing' \subseteq CvReleasing)]_vars

\* Both objects were cloned, every handle has been dropped, both releases are
\* done (the Barrier broken) and the counts are 0.
C25_Witness ==
    /\ bRefCount = 0 /\ bBroken /\ BarrierReleasing = {}
    /\ cvRefCount = 0 /\ CvReleasing = {} /\ cvRelK > 0
    /\ bRelK > 0

\* C26: Reset while at least one caller is blocked in Wait panics and leaves
\* count, broken, waiting and generation unchanged; Reset when no caller has
\* arrived in the current generation does not panic and sets count to the new
\* value and broken to false.
C26_ResetPrecondition ==
    /\ [](BarrierParked # {} => ResetPanics(bWaiting))
    /\ [](bArrived = 0 => ~ResetPanics(bWaiting))
    /\ [][\A n \in 0..NumBarrierThreads :
            BarrierReset(n) =>
                /\ BarrierParked # {} => UNCHANGED bFields
                /\ bArrived = 0 => (bCount' = n /\ bBroken' = FALSE)]_vars

\* A Reset has taken effect on a barrier nobody had arrived at, changing its
\* count, and a caller blocked in Wait since then makes the next Reset panic.
C26_Witness ==
    /\ bEverReset /\ bCount < NumBarrierThreads
    /\ BarrierParked # {} /\ ~bBroken

\* The count after n separate Clone calls on a count of rc.
RECURSIVE CloneTimes(_, _)
CloneTimes(rc, n) == IF n <= 0 THEN rc ELSE RefAfterClone(CloneTimes(rc, n - 1))

\* C27: CloneMany(n) with n >= 1 on a live handle raises the count by n in one
\* step, the count n separate Clone calls produce, and returns n handles on
\* the data of the handle cloned; with n <= 0 or on a nil handle it returns
\* nil and changes nothing.
C27_CloneMany ==
    /\ [][\A t \in ArcThreads, h \in Handles \cup {NilHandle},
            count \in -1..MaxCloneMany :
            CloneManyAdd(t, h, count) =>
                IF h = NilHandle \/ count <= 0
                THEN UNCHANGED arcVars
                ELSE /\ arcRefCount' = CloneTimes(arcRefCount, count)
                     /\ arcRefCount' = arcRefCount + count
                     /\ aCnt'[t] = count]_vars
    /\ [][\A t \in ArcThreads :
            (CloneManyFinish(t) /\ aNew[t] - aCnt[t] >= 1) =>
                /\ arcRefCount' = arcRefCount
                /\ ExistingHandles \subseteq ExistingHandles'
                /\ Cardinality(ExistingHandles' \ ExistingHandles) = aCnt[t]
                /\ \A n \in ExistingHandles' \ ExistingHandles :
                        hValid'[n] = hValid[aH[t]]]_vars

\* A CloneMany(MaxCloneMany) on the only handle has added MaxCloneMany to the
\* count in its one step and is about to return its handles.
C27_Witness ==
    \E t \in ArcThreads :
        /\ apc[t] = "cloneMany" /\ aCnt[t] = MaxCloneMany
        /\ aNew[t] = 1 + MaxCloneMany /\ arcRefCount = 1 + MaxCloneMany

\* C28: Equal(h1, h2) is true exactly when h1 and h2 refer to the same
\* allocation (two nil handles to none), whatever the state of the handles:
\* live, dropped or nil.
C28_EqualIffSameAllocation ==
    eqLast[3] <=> (AllocOf(eqLast[1]) = AllocOf(eqLast[2]))

\* The callers inside Wait that arrived in the current generation.
BarrierCurrentCycle == {t \in BarrierInWait : bMyGen[t] = bGen}

\* C29: threads calling Wait in a loop on a barrier that is not dropped or
\* reset: no Wait returns false; a waiter woken for its cycle never blocks
\* again, whoever has re-entered Wait meanwhile, and waiting counts only the
\* callers of the current generation; with every thread looping, all MaxGen
\* cycles complete and every caller returns.
C29_ReuseAcrossCycles ==
    /\ [](NotDroppedOrReset => ~bFalseLive)
    /\ [](NotDroppedOrReset => bWaiting = Cardinality(BarrierCurrentCycle))
    /\ [][NotDroppedOrReset =>
            \A t \in BarrierThreads : bpc[t] = "woken" => bpc'[t] # "parked"]_vars
    /\ <>(\/ ~NotDroppedOrReset
          \/ bGen = MaxGen /\ BarrierInWait = {})

\* In the second cycle of a barrier for NumBarrierThreads a thread has
\* re-entered Wait and is blocked while a waiter of the first cycle has not
\* resumed yet.
C29_Witness ==
    /\ NotDroppedOrReset
    /\ bCount = NumBarrierThreads
    /\ bGen = 1
    /\ \E t, u \in BarrierThreads :
            /\ bpc[t] = "woken" /\ bMyGen[t] = 0
            /\ bpc[u] = "parked" /\ bMyGen[u] = 1

\* C30: 0 <= waiting < count in every reachable state; the generation changes
\* only by +1 and only in the step in which waiting reaches count and is reset
\* to 0, a step of Wait; Drop, Reset and a Wait that blocks or returns false
\* leave it alone.
C30_BarrierInvariant ==
    /\ [](0 <= bWaiting /\ bWaiting < bCount)
    /\ [][bGen' # bGen =>
            /\ bGen' = bGen + 1
            /\ bWaiting + 1 = bCount /\ bWaiting' = 0
            /\ \E t \in BarrierThreads : BarrierWait(t)]_vars
    /\ [][bWaiting' = 0 /\ bWaiting # 0 => bGen' = bGen + 1]_vars

\* C31: broken changes from false to true only in the critical section of the
\* Drop that took refCount to 0, and from true to false only in a Reset that
\* found waiting = 0; a Wait called while broken is true returns at once and
\* leaves count, waiting, generation and broken as they are, and its caller
\* does not block.
C31_BrokenFlag ==
    /\ [][(~bBroken /\ bBroken') =>
            \E d \in BarrierDroppers : dpc[d] = "dropBreak" /\ BarrierDropBreak(d)]_vars
    /\ [][(bBroken /\ ~bBroken') =>
            (bWaiting = 0 /\ \E n \in 0..NumBarrierThreads : BarrierReset(n))]_vars
    /\ [][\A t \in BarrierThreads :
            (bBroken /\ BarrierWait(t)) => (UNCHANGED bFields /\ bpc' = bpc)]_vars

\* The Drop that took refCount to 0 has set broken and finished, and a Reset
\* has cleared it since; a caller is blocked on the rearmed barrier.
C31_Witness ==
    /\ bDropped /\ bEverReset /\ ~bBroken
    /\ \A d \in BarrierDroppers : dpc[d] = "idle"
    /\ BarrierParked # {}

\* C32: for every interleaving of Clone and Drop calls, refcnt never becomes
\* positive again after it has reached 0 (so the closing transition happens
\* at most once).
C32_CloseOnce ==
    [][rwRefcnt = 0 => rwRefcnt' <= 0]_vars

\* C33: all Wait calls of one generation return the same value: a waiter
\* whose generation was completed by its last arrival (which returned true)
\* returns true as well (Wait returns !b.broken), also when the last Drop
\* comes after the generation advanced and before the waiter has resumed.
C33_ResultAgreement ==
    [][\A t \in BarrierThreads :
        (bpc[t] = "woken" /\ bMyGen[t] < bGen /\ bpc'[t] = "idle")
            => WaitResult(bBroken)]_vars

\* C34: the participant count is >= 1 in every reachable state: NewBarrier(n)
\* and Reset(n) both reject n <= 0.
C34_CapacityValid == bCount >= 1

\* C35: the compensating Signal of a cancelled or timed-out WaitWithContext
\* wakes no waiter other than the call's own auxiliary goroutine: it leaves
\* the callers parked in Wait, and the auxiliary goroutines of other calls,
\* where they are.
C35_CompensatingSignalOwnAux ==
    [][\A c \in CvCallers :
        CvSelectCancel(c) =>
            /\ wpc' = wpc
            /\ \A e \in CvCallers \ {c} : xpc'[e] = xpc[e]]_vars

\* C36: TryWithLock, and TryLock with a timeout <= 0, on a valid handle
\* return false only if another caller is inside the critical section of
\* WithLock, WithLockResult, TryWithLock or TryLock at that moment; an
\* IsLocked probe alone never makes them return false.
C36_FalseOnlyUnderContention ==
    [][\A t \in MutexThreads :
        (TryWithLock(t) /\ amValid[t] /\ mRet'[t] = FALSE)
            => \E u \in MutexThreads \ {t} : AmInCall(u)]_vars

\* C37: once the count has reached 0 (a Drop has returned true) and no handle
\* was dropped twice, no Clone or CloneMany on a stale handle builds a new
\* handle, and whenever no call is running the count is 0 again.
C37_NoResurrection ==
    /\ [][\A t \in ArcThreads :
            (dropTrue > 0 /\ repeatedDrops = 0
                /\ (CloneFinish(t) \/ CloneManyFinish(t)))
                => hExists' = hExists]_vars
    /\ [](((dropTrue > 0 /\ repeatedDrops = 0
                /\ \A t \in ArcThreads : apc[t] = "idle"))
            => arcRefCount = 0)

\* C38: once the Barrier's refCount has reached 0 it stays 0 under every
\* later Clone and Drop, so the release (broken := true and Broadcast) is
\* performed at most once.
C38_ReleasedIsFinal ==
    [][(bRefCount = 0 => bRefCount' = 0)
        /\ \A d \in BarrierDroppers :
              (bDropped /\ BarrierDrop(d)) => dpc'[d] # "dropBreak"]_vars

\* C39: fn of WithRLock or WithLock is never invoked with a nil value pointer
\* (no fn dereferenced nil), and the value is not cleared while a reader or
\* writer fn is executing.
C39_PayloadValid ==
    /\ ~rwPanicked
    /\ rwValueNil => (RwReading = {} /\ RwWriting = {})

\* C40: once the Drop that took refCount to 0 has completed, a caller that
\* invokes Wait is not parked in cond.Wait(), where only a further Signal or
\* Broadcast could end its wait.
C40_NoAbandonedWait ==
    [][\A w \in CvWaiters :
        (cvRefCount = 0 /\ (\A d \in CvDroppers : cvdpc[d] = "idle")
            /\ CvWait(w)) => wpc'[w] # "parked"]_vars

====
